---- MODULE Spec2Model ----
(***************************************************************************)
(* Chapter generation workflow engine of book-writing-agent:               *)
(*   backend/apps/agents/services/orchestration.py  (AgentOrchestrator)    *)
(*   backend/apps/agents/tasks.py                   (execute_agent_run)    *)
(*   backend/apps/books/services/pipeline.py        (BookWorkflowService)  *)
(*                                                                         *)
(* Python dicts are modelled as functions whose DOMAIN is the set of keys  *)
(* present; dict.get(k, d) is Get(d, k, default) and {**a, **b} is         *)
(* Merge(a, b).  A chapter text is a sequence of items: whitespace runs,   *)
(* the tokens "#" and "##", and runs of n plain words.                     *)
(***************************************************************************)
EXTENDS Integers, Sequences, FiniteSets, TLC

VARIABLES
    run,        \* the AgentRun row (status, output_payload, timings_json, error_message)
    run_exists, \* whether a row with the task's run_id exists
    project,    \* the BookProject row: outline size and profile
    chapters,   \* the Chapter rows of the project, in the order they were created
    pc,         \* position of the execution
    state,      \* WorkflowState of the top-level graph
    cstate,     \* WorkflowState of the chapter subgraph
    started,    \* _node_chapter's local `started` snapshot
    exc,        \* the exception in flight / raised by execute
    result,     \* the dict returned by execute
    calls,      \* number of calls made to each collaborator
    reported,   \* stage names of the payloads that reported used_fallback, first-seen order
    last_node,  \* the chapter-subgraph node executed last
    env,        \* which of the collaborators' behaviours vary in this execution
    attempt,    \* how many times the task has been started for this run
    draft_call, \* the arguments of the latest call of llm.draft_or_revise_chapter
    handed,     \* the snapshot the latest tracker call was given: as it was, and as the
                \* caller's object reads once the call has returned
    other_run,  \* the AgentRun row of another run of the project
    writes      \* the telemetry writes of the run: those of the latest handler, and the
                \* subgraph node that was left started before them

vars == <<run, run_exists, project, chapters, pc, state, cstate, started, exc,
          result, calls, reported, last_node, env, attempt, draft_call,
          handed, other_run, writes>>

----------------------------------------------------------------------------
(* Dict helpers *)

EmptyDict == [k \in {} |-> TRUE]

\* Python evaluates an argument once, before the call: Only(S) is the element of a
\* one-element set, and the helpers take their dict arguments through it.
Only(S) == CHOOSE x \in S : TRUE

\* d.get(k, default)
Get(d, k, default) == Only({IF k \in DOMAIN dv THEN dv[k] ELSE default : dv \in {d}})

\* {**d, k: v}
Put(d, k, v) ==
    Only({[x \in (DOMAIN dv) \cup {k} |-> IF x = k THEN vv ELSE dv[x]] : dv \in {d}, vv \in {v}})

\* {**a, **b}
Merge(a, b) ==
    Only({[x \in (DOMAIN av) \cup (DOMAIN bv) |-> IF x \in DOMAIN bv THEN bv[x] ELSE av[x]] :
             av \in {a}, bv \in {b}})

Contains(s, e) == \E i \in 1..Len(s) : s[i] = e

AppendNew(s, e) == IF Contains(s, e) THEN s ELSE Append(s, e)

Min(a, b) == IF a < b THEN a ELSE b

Max(a, b) == IF a > b THEN a ELSE b

----------------------------------------------------------------------------
(* Program constants *)

max_revisions == 2

PassScore == 80

MinWordsShort == 900

MinWordsMedium == 1800

MinWordsLong == 3000

MinWordsDefault == 1200

LastErrorLimit == 500

TaskErrorLimit == 2000

----------------------------------------------------------------------------
(* Chapter text: a sequence of items.  Sp is a run of whitespace, H1 and H2
   are the tokens "#" and "##", W(n) is n plain words joined by single
   blanks.  Two neighbouring tokens are always separated by an Sp item. *)

Sp == [kind |-> "sp", n |-> 0]

H1 == [kind |-> "h1", n |-> 1]

H2 == [kind |-> "h2", n |-> 1]

W(n) == [kind |-> "w", n |-> n]

\* str.lstrip(): the text from its first item that is not whitespace
LStrip(t) ==
    Only({LET keep == {i \in 1..Len(tv) : tv[i].kind # "sp"}
          IN  IF keep = {} THEN <<>>
              ELSE SubSeq(tv, CHOOSE i \in keep : \A j \in keep : i <= j, Len(tv)) : tv \in {t}})

\* str.rstrip(): the text up to its last item that is not whitespace
RStrip(t) ==
    Only({LET keep == {i \in 1..Len(tv) : tv[i].kind # "sp"}
          IN  IF keep = {} THEN <<>>
              ELSE SubSeq(tv, 1, CHOOSE i \in keep : \A j \in keep : i >= j) : tv \in {t}})

\* str.strip()
Strip(t) == RStrip(LStrip(t))

RECURSIVE CountFrom(_, _)
CountFrom(t, i) == IF i > Len(t) THEN 0 ELSE t[i].n + CountFrom(t, i + 1)

\* len([token for token in text.split() if token.strip()])
TokenCount(t) == Only({CountFrom(tv, 1) : tv \in {t}})

\* "## " in text
HasSectionHeading(t) == \E i \in 1..(Len(t) - 1) : t[i].kind = "h2" /\ t[i + 1].kind = "sp"

----------------------------------------------------------------------------
(* Project profile and the guardrail evaluator *)

\* a JSON value that is a dict, and one that is not
DictVal(d) == [is_dict |-> TRUE, d |-> d]

NonDict == [is_dict |-> FALSE, d |-> EmptyDict]

Lower(c) == CASE c = "S" -> "s" [] c = "M" -> "m" [] c = "L" -> "l" [] c = "O" -> "o" [] OTHER -> c

LowerStr(s) == [i \in 1..Len(s) |-> Lower(s[i])]

\* needle in haystack, for Python strings as sequences of characters
InStr(needle, hay) ==
    \E i \in 1..(Len(hay) - Len(needle) + 1) : SubSeq(hay, i, i + Len(needle) - 1) = needle

ProjectProfile(p) ==
    LET metadata == p.metadata_json
        legacy == Get(metadata, "profile", DictVal(EmptyDict))
        legacy_profile == IF legacy.is_dict THEN legacy.d ELSE EmptyDict
        user_concept == Get(metadata, "user_concept", DictVal(EmptyDict))
    IN  IF user_concept.is_dict
        THEN LET profile == Get(user_concept.d, "profile", DictVal(EmptyDict))
             IN  IF profile.is_dict THEN profile.d ELSE legacy_profile
        ELSE legacy_profile

\* Variant that compares the preference as written, without lower-casing it.
MinimumWordCountCaseSensitive(p) ==
    LET chapter_length == Get(ProjectProfile(p), "chapterLength", <<>>)
    IN  IF InStr(<<"s", "h", "o", "r", "t">>, chapter_length) THEN MinWordsShort
        ELSE IF InStr(<<"m", "e", "d", "i", "u", "m">>, chapter_length) THEN MinWordsMedium
        ELSE IF InStr(<<"l", "o", "n", "g">>, chapter_length) THEN MinWordsLong
        ELSE MinWordsDefault

MinimumWordCountForProject(p) ==
    LET chapter_length == LowerStr(Get(ProjectProfile(p), "chapterLength", <<>>))
    IN  IF InStr(<<"s", "h", "o", "r", "t">>, chapter_length) THEN MinWordsShort
        ELSE IF InStr(<<"m", "e", "d", "i", "u", "m">>, chapter_length) THEN MinWordsMedium
        ELSE IF InStr(<<"l", "o", "n", "g">>, chapter_length) THEN MinWordsLong
        ELSE MinWordsDefault

Issue(text, a, b) == [text |-> text, a |-> a, b |-> b]

IssueEmpty == Issue("Chapter content is empty.", 0, 0)

IssueNoHeading == Issue("Chapter is missing at least one '##' section heading.", 0, 0)

IssueBelowMinimum(wc, minimum) == Issue("Chapter word count {a} is below minimum {b}.", wc, minimum)

\* Variant of the guardrail evaluator that checks the length only (no heading check).
ReviewGuardrailsWordsOnly(p, content) ==
    LET text == Strip(content)
        word_count == TokenCount(text)
        minimum_word_count == MinimumWordCountForProject(p)
        i1 == IF Len(text) = 0 THEN <<IssueEmpty>> ELSE <<>>
        i3 == IF word_count < minimum_word_count
              THEN Append(i1, IssueBelowMinimum(word_count, minimum_word_count)) ELSE i1
    IN  [issues |-> i3, word_count |-> word_count, minimum_word_count |-> minimum_word_count]

ReviewGuardrails(p, content) ==
    LET text == Strip(content)
        word_count == TokenCount(text)
        minimum_word_count == MinimumWordCountForProject(p)
        i1 == IF Len(text) = 0 THEN <<IssueEmpty>> ELSE <<>>
        i2 == IF ~HasSectionHeading(text) THEN Append(i1, IssueNoHeading) ELSE i1
        i3 == IF word_count < minimum_word_count
              THEN Append(i2, IssueBelowMinimum(word_count, minimum_word_count)) ELSE i2
    IN  [issues |-> i3, word_count |-> word_count, minimum_word_count |-> minimum_word_count]

----------------------------------------------------------------------------
(* Fallback aggregator *)

\* str.strip() on the stage names that occur
StripName(s) == CASE s = " toc " -> "toc" [] s = "  " -> "" [] OTHER -> s

RECURSIVE MergeNames(_, _)
MergeNames(stages, items) ==
    IF Len(items) = 0 THEN stages
    ELSE LET text == StripName(items[1])
         IN  MergeNames(IF text # "" /\ ~Contains(stages, text) THEN Append(stages, text) ELSE stages,
                        Tail(items))

\* Variant of the aggregator that keeps only what the latest payload reports.
MergeFallbackStagesLatest(existing, payload) ==
    LET s2 == MergeNames(<<>>, Get(payload, "fallback_stages", <<>>))
    IN  IF Get(payload, "used_fallback", FALSE)
        THEN MergeNames(s2, <<Get(payload, "fallback_stage", "")>>)
        ELSE s2

MergeFallbackStages(existing, payload) ==
    LET s1 == MergeNames(<<>>, existing)
        s2 == MergeNames(s1, Get(payload, "fallback_stages", <<>>))
    IN  IF Get(payload, "used_fallback", FALSE)
        THEN MergeNames(s2, <<Get(payload, "fallback_stage", "")>>)
        ELSE s2

\* Variant of the output stamp that writes the list and leaves the flag as the payload had it.
WithFallbackOutputStale(output, fallback_stages) ==
    Merge(output, [fallback_stages |-> fallback_stages,
                   used_fallback |-> Get(output, "used_fallback", FALSE)])

WithFallbackOutput(output, fallback_stages) ==
    Merge(output, [fallback_stages |-> fallback_stages, used_fallback |-> Len(fallback_stages) > 0])

----------------------------------------------------------------------------
(* Progress / telemetry tracker *)

CopyProgress(st) ==
    Only({LET p1 == Put(raw, "node_status", Get(raw, "node_status", EmptyDict))
              p2 == Put(p1, "completed_nodes", Get(raw, "completed_nodes", <<>>))
          IN  IF "revision_count" \in DOMAIN raw THEN p2
              ELSE Put(p2, "revision_count", Get(st, "revision_count", 0)) :
          raw \in {Get(st, "progress", EmptyDict)}})

CopyNodeTimings(st) == Get(st, "node_timings", EmptyDict)

\* Variant of the write that saves a payload and timings holding the telemetry only.
PersistRunTelemetryReplace(row, exists, run_id, progress, node_timings) ==
    IF run_id = "" \/ ~exists THEN row
    ELSE [row EXCEPT !.output_payload = [progress |-> progress],
                     !.timings_json = [nodes |-> node_timings]]

\* the AgentRun row after _persist_run_telemetry(run_id, progress, node_timings); exists is
\* false when no row has the id and when reading or saving it raises: the except clause
\* swallows the error and the row stays as it was
PersistRunTelemetry(row, exists, run_id, progress, node_timings) ==
    IF run_id = "" \/ ~exists THEN row
    ELSE Only({[rv EXCEPT !.output_payload = Put(rv.output_payload, "progress", progress),
                          !.timings_json = Put(rv.timings_json, "nodes",
                                               Merge(Get(rv.timings_json, "nodes", EmptyDict),
                                                     node_timings))] : rv \in {row}})

\* AgentRun.objects.filter(id=run_id): the ids of the rows the telemetry write reads
FilterById(table, run_id) == {id \in DOMAIN table : id = run_id}

\* the AgentRun table after a telemetry write for run_id: the row found is saved, if any
TelemetryWrite(table, exists, run_id, progress, node_timings) ==
    Only({[id \in DOMAIN table |->
              IF id \in found
              THEN PersistRunTelemetry(table[id], exists, run_id, progress, node_timings)
              ELSE table[id]] : found \in {FilterById(table, run_id)}})

\* the AgentRun table: the run being executed and another run of the project
Rows(row, other) == [id \in {row.id, other.id} |-> IF id = row.id THEN row ELSE other]

\* Variant of the tracker that counts the marked node as one more revision.
ResolveRevisionCountBumped(st, progress, has_rc, rc) ==
    IF has_rc THEN rc + 1 ELSE Get(st, "revision_count", Get(progress, "revision_count", 0))

\* revision_count argument: has_rc = FALSE is the Python default None
ResolveRevisionCount(st, progress, has_rc, rc) ==
    IF has_rc THEN rc ELSE Get(st, "revision_count", Get(progress, "revision_count", 0))

\* Variant of the tracker that leaves a node running when it ends.
MarkedRunning(st, progress, node_name, status, has_rc, rc) ==
    Only({Put(Put(Put(p, "current_node", node_name),
                  "node_status", Put(p["node_status"], node_name,
                                     IF status = "completed" THEN "running" ELSE status)),
              "revision_count", ResolveRevisionCount(st, p, has_rc, rc)) : p \in {progress}})

\* the progress snapshot with node_name set to status and the revision count resolved
Marked(st, progress, node_name, status, has_rc, rc) ==
    Only({Put(Put(Put(p, "current_node", node_name),
                  "node_status", Put(p["node_status"], node_name, status)),
              "revision_count", ResolveRevisionCount(st, p, has_rc, rc)) : p \in {progress}})

\* Variant of the tracker that returns the progress it reads back from the run record.
TrackedReadBack(row, exists, run_id, progress, node_timings) ==
    Only({[progress |-> Get(written[row.id].output_payload, "progress", progress),
           node_timings |-> node_timings, row |-> written[row.id], other |-> written[other_run.id]] :
          written \in {TelemetryWrite(Rows(row, other_run), exists, run_id, progress, node_timings)}})

\* what a tracker call leaves behind: the snapshot it returns and the AgentRun row it wrote
Tracked(row, exists, run_id, progress, node_timings) ==
    Only({[progress |-> progress, node_timings |-> node_timings,
           row |-> written[row.id], other |-> written[other_run.id]] :
          written \in {TelemetryWrite(Rows(row, other_run), exists, run_id, progress, node_timings)}})

\* the progress and node timings a tracker call is given in its state argument
SnapshotOf(st) ==
    [progress |-> Get(st, "progress", EmptyDict), node_timings |-> Get(st, "node_timings", EmptyDict)]

\* a given snapshot that the call wrote nothing into
Kept(snap) == [given |-> snap, now |-> snap]

\* a tracker call's result t together with what became of the snapshot it was given
WithHanded(t, h, node_name, status) ==
    [progress |-> t.progress, node_timings |-> t.node_timings, row |-> t.row, other |-> t.other,
     handed |-> h,
     write |-> [node |-> node_name, status |-> status, snapshot |-> t.progress,
                stored |-> Get(Get(t.row.output_payload, "progress", EmptyDict),
                               "node_status", EmptyDict)]]

\* _mark_node_start: every write goes to the copies made by _copy_progress and
\* _copy_node_timings
MarkNodeStart(row, exists, st, node_name, has_rc, rc) ==
    Only({WithHanded(Tracked(row, exists, Get(sv, "run_id", ""),
                             Marked(sv, CopyProgress(sv), node_name, "running", has_rc, rc),
                             CopyNodeTimings(sv)),
                     Kept(SnapshotOf(sv)), node_name, "running") : sv \in {st}})

\* Variant that appends the node to completed_nodes each time it ends.
CompletedEachTime(progress, node_name, optional_meta) ==
    Only({LET p1 == Put(p, "completed_nodes", Append(p["completed_nodes"], node_name))
          IN  IF DOMAIN optional_meta # {}
              THEN Put(p1, "node_meta", Put(Get(p, "node_meta", EmptyDict), node_name, optional_meta))
              ELSE p1 : p \in {progress}})

\* progress["completed_nodes"] and progress["node_meta"] of _mark_node_end
Completed(progress, node_name, optional_meta) ==
    Only({LET p1 == Put(p, "completed_nodes", AppendNew(p["completed_nodes"], node_name))
          IN  IF DOMAIN optional_meta # {}
              THEN Put(p1, "node_meta", Put(Get(p, "node_meta", EmptyDict), node_name, optional_meta))
              ELSE p1 : p \in {progress}})

\* lines 586-591 of _mark_node_end, on the copy of _copy_progress: dict(raw) copies the top
\* level and node_status and completed_nodes are rebuilt, but progress.get("node_meta") is the
\* dict of the given snapshot, and node_meta[node_name] = optional_meta writes into it
SnapshotAfterEnd(snap, node_name, optional_meta) ==
    IF DOMAIN optional_meta # {} /\ "node_meta" \in DOMAIN snap.progress
    THEN [given |-> snap,
          now |-> [snap EXCEPT !.progress =
                      Put(snap.progress, "node_meta",
                          Put(snap.progress["node_meta"], node_name, optional_meta))]]
    ELSE Kept(snap)

MarkNodeEnd(row, exists, st, node_name, node_ms, optional_meta, has_rc, rc) ==
    Only({WithHanded(Tracked(row, exists, Get(sv, "run_id", ""),
                             Completed(Marked(sv, CopyProgress(sv), node_name, "completed", has_rc, rc),
                                       node_name, optional_meta),
                             Put(CopyNodeTimings(sv), node_name, node_ms)),
                     SnapshotAfterEnd(SnapshotOf(sv), node_name, optional_meta),
                     node_name, "completed") : sv \in {st}})

\* Variant that records the whole message.
TruncateNone(error, limit) == error

\* str(error)[:limit]
Truncate(error, limit) == [error EXCEPT !.len = Min(error.len, limit)]

\* _mark_node_error: last_error is set on the copy
MarkNodeError(row, exists, st, node_name, error, node_ms, has_rc, rc) ==
    Only({WithHanded(Tracked(row, exists, Get(sv, "run_id", ""),
                             Put(Marked(sv, CopyProgress(sv), node_name, "failed", has_rc, rc),
                                 "last_error", Truncate(error, LastErrorLimit)),
                             Put(CopyNodeTimings(sv), node_name, node_ms)),
                     Kept(SnapshotOf(sv)), node_name, "failed") : sv \in {st}})

----------------------------------------------------------------------------
(* Inputs: what the run row, the project row and the collaborators can be *)

Err(msg, len) == [msg |-> msg, len |-> len]

NoError == Err("", 0)

\* An execution varies the collaborators along one axis: "quality" varies the drafts and
\* the reviews, "fallback" varies which stages fall back, "timing" varies the elapsed times,
\* "telemetry" varies which telemetry writes fail.
\* "profile" is a project whose profile asks for the second person and short chapters.
Envs == {"quality", "fallback", "timing", "telemetry", "profile"}

\* The orchestrator reaches persistence through self.workflow, which a caller can replace:
\* "stub" is an execution with a persistence collaborator that may hand back an empty
\* result, which BookWorkflowService.persist_chapter_result never does.
StubEnvs == {"stub"}

Durations == {1, 2}

\* elapsed milliseconds a node can measure
NodeDurations(e) == IF e = "timing" THEN Durations ELSE {1}

FallbackFlags(e) == IF e = "fallback" THEN BOOLEAN ELSE {FALSE}

\* whether a telemetry write goes through: reading or saving the run record can raise
WriteOutcomes(e) == IF e = "telemetry" THEN BOOLEAN ELSE {TRUE}

ModeInputs == {"toc", "refine_toc", "chapter", "export", "profile_assistant", " TOC ", "summary", ""}

\* str.strip()
ModeStrip(m) == IF m = " TOC " THEN "TOC" ELSE m

\* str.lower()
ModeLower(m) == IF m = "TOC" THEN "toc" ELSE m

RunModes == {"toc", "refine_toc", "chapter", "export", "profile_assistant"}

IntVal(v) == [ok |-> TRUE, v |-> v]

BadVal == [ok |-> FALSE, v |-> 0]

\* the largest outline a project has here
MaxOutline == 2

\* how many times the task may be started for one run
MaxAttempts == 2

\* no chapter_number, one below the outline, the first chapter, one past the outline, not a number
ChapterInputs ==
    {EmptyDict} \cup {[chapter_number |-> x] : x \in {IntVal(0), IntVal(1), IntVal(MaxOutline + 1), BadVal}}

Bullets == <<"Concept setup", "Core framework", "Worked example", "Counterexample",
             "Common mistakes", "Practice exercise">>

Outline(n) ==
    [chapters |-> [i \in 1..n |-> [number |-> i, title |-> "Outline title", bullet_points |-> Bullets]]]

ShortLength == <<"S", "h", "o", "r", "t">>

ProfileInputs == {EmptyDict}

\* metadata_json with user_concept.profile = {pointOfView: "Second Person", chapterLength: "Short ..."}
SecondPersonShort ==
    [user_concept |-> DictVal([profile |-> DictVal([pointOfView |-> "Second Person",
                                                    chapterLength |-> ShortLength])])]

ProfilesOf(e) == IF e = "profile" THEN {SecondPersonShort} ELSE ProfileInputs

OutlineSizes == {0, MaxOutline}

\* "##" and 1300 words
GoodContent == <<Sp, H1, Sp, W(1), Sp, H2, Sp, W(1300)>>

\* whitespace only; "##" and 1000 words; 1300 words and no "##"; "##" and 1300 words
Contents == {<<Sp>>,
             <<H1, Sp, W(1), Sp, H2, Sp, W(1000), Sp>>,
             <<H1, Sp, W(1300)>>,
             GoodContent}

\* "# Complex Chapter", "## Section" and 2100 words, none of them a second-person pronoun
LongContent == <<H1, Sp, W(2), Sp, H2, Sp, W(1), Sp, W(2100)>>

ContentsOf(e) == IF e = "quality" THEN Contents ELSE IF e = "profile" THEN {LongContent} ELSE {GoodContent}

\* LLMService._with_runtime_meta: the stage name is set exactly when used_fallback is
RuntimeMeta(payload, used_fallback, fallback_stage) ==
    Merge(payload, [used_fallback |-> used_fallback,
                    fallback_stage |-> IF used_fallback THEN fallback_stage ELSE ""])

PlanPayloads(e) == {RuntimeMeta([plan |-> [objective |-> "o"]], fb, "chapter_plan") : fb \in FallbackFlags(e)}

DraftPayloads(e, chapter_number, k) ==
    {RuntimeMeta([chapter |-> [number |-> chapter_number, title |-> "Draft title",
                               content |-> c, summary |-> "s"],
                  metadata |-> [draft_call |-> k],
                  next_steps |-> <<"Review">>], fb, "chapter_draft") :
        c \in ContentsOf(e), fb \in FallbackFlags(e)}

\* a score is a number given in tenths (79.9 is 799) or something int(float(str(x))) rejects
Num(tenths) == [kind |-> "num", tenths |-> tenths]

BadScore == [kind |-> "bad", tenths |-> 0]

ScoreInputs == {Num(799), Num(800), Num(950), BadScore}

CritiqueInputs == {"", "Add stronger examples."}

\* str.strip() on the critiques that occur
StripCritique(c) == IF c = "  " THEN "" ELSE c

\* outside "quality" a review either passes or asks for a revision
Reviews(e) ==
    IF e = "quality"
    THEN {[score |-> sc, should_revise |-> sr, issues |-> <<>>, critique |-> cr] :
             sc \in ScoreInputs, sr \in BOOLEAN, cr \in CritiqueInputs}
    ELSE IF e = "profile"
    THEN {[score |-> Num(950), should_revise |-> FALSE, issues |-> <<>>, critique |-> ""]}
    ELSE {[score |-> Num(950), should_revise |-> FALSE, issues |-> <<>>, critique |-> ""],
          [score |-> Num(650), should_revise |-> TRUE, issues |-> <<>>, critique |-> "Add stronger examples."]}

ReviewPayloads(e) ==
    {RuntimeMeta([review |-> r], fb, "chapter_review") : r \in Reviews(e), fb \in FallbackFlags(e)}

ProviderError == Err("generation provider failed", 600)

StorageError == Err("storage failed", 14)

\* what self.workflow.persist_chapter_result hands back when the service's result is r
PersistResults(e, r) ==
    IF e \in StubEnvs /\ r.ok THEN {r, [r EXCEPT !.output = EmptyDict]} ELSE {r}

\* BookWorkflowService.execute_mode for the single-shot modes
ModePayloads(e, mode) ==
    IF mode \in {"toc", "refine_toc"}
    THEN {[status |-> "success", used_fallback |-> fb,
           fallback_stages |-> IF fb THEN <<mode>> ELSE <<>>] : fb \in FallbackFlags(e)}
    ELSE {[status |-> "success", used_fallback |-> FALSE, fallback_stages |-> <<>>]}

----------------------------------------------------------------------------
(* Collaborators with code in the repository *)

\* BookWorkflowService._to_int
ToInt(inputs, field) ==
    IF field \notin DOMAIN inputs THEN [ok |-> FALSE, v |-> 0, error |-> Err("chapter_number is required", 26)]
    ELSE IF ~inputs[field].ok THEN [ok |-> FALSE, v |-> 0, error |-> Err("chapter_number must be a valid integer", 39)]
    ELSE [ok |-> TRUE, v |-> inputs[field].v, error |-> NoError]

\* Variant of the context lookup that does not reject a chapter number missing from the outline.
PrepareChapterContextUnchecked(p, inputs) ==
    LET outline == Outline(p.outline_chapters)
        n == ToInt(inputs, "chapter_number")
        found == {i \in 1..Len(outline.chapters) : outline.chapters[i].number = n.v}
    IN  IF Len(outline.chapters) = 0
        THEN [ok |-> FALSE, error |-> Err("outline.chapters must be a non-empty array", 42), ctx |-> EmptyDict]
        ELSE IF ~n.ok THEN [ok |-> FALSE, error |-> n.error, ctx |-> EmptyDict]
        ELSE [ok |-> TRUE, error |-> NoError,
              ctx |-> [outline |-> outline, chapter_number |-> n.v,
                       target |-> IF found = {} THEN EmptyDict
                                  ELSE outline.chapters[CHOOSE i \in found : TRUE],
                       memory_context |-> <<"memory">>, knowledge_context |-> <<"knowledge">>]]

PrepareChapterContext(p, inputs) ==
    LET outline == Outline(p.outline_chapters)
        n == ToInt(inputs, "chapter_number")
        found == {i \in 1..Len(outline.chapters) : outline.chapters[i].number = n.v}
    IN  IF Len(outline.chapters) = 0
        THEN [ok |-> FALSE, error |-> Err("outline.chapters must be a non-empty array", 42), ctx |-> EmptyDict]
        ELSE IF ~n.ok THEN [ok |-> FALSE, error |-> n.error, ctx |-> EmptyDict]
        ELSE IF found = {}
        THEN [ok |-> FALSE, error |-> Err("chapter_number is outside outline range", 39), ctx |-> EmptyDict]
        ELSE [ok |-> TRUE, error |-> NoError,
              ctx |-> [outline |-> outline, chapter_number |-> n.v,
                       target |-> outline.chapters[CHOOSE i \in found : TRUE],
                       memory_context |-> <<"memory">>, knowledge_context |-> <<"knowledge">>]]

\* the defaults handed to update_or_create
ChapterRow(chapter_data, target, chapter_number) ==
    LET given == Get(chapter_data, "title", "")
        title == IF given # "" THEN given ELSE Get(target, "title", "")
    IN  [title |-> IF title # "" THEN title ELSE "Chapter {number}",
         content |-> Strip(Get(chapter_data, "content", <<>>)),
         summary |-> Get(chapter_data, "summary", ""),
         status |-> "generated"]

\* Variant that inserts a row whether or not one with that number is stored.
UpdateOrCreateInsert(rows, number, defaults) ==
    Append(rows, Merge([number |-> number], defaults))

\* Chapter.objects.update_or_create(project=project, number=number, defaults=defaults) on the
\* project's rows: the row with that number gets the defaults, and is created when there is none
UpdateOrCreate(rows, number, defaults) ==
    LET found == {i \in 1..Len(rows) : rows[i].number = number}
    IN  IF found = {} THEN Append(rows, Merge([number |-> number], defaults))
        ELSE [i \in 1..Len(rows) |-> IF i = Only(found) THEN Merge(rows[i], defaults) ELSE rows[i]]

EmptyContentError == Err("Generated chapter content is empty", 34)

\* Variant that stores the chapter without looking at its content.
PersistChapterResultUnchecked(rows, outline, chapter_number, target, chapter_data, metadata, next_steps) ==
    LET row == ChapterRow(chapter_data, target, chapter_number)
    IN  [ok |-> TRUE, error |-> NoError, rows |-> UpdateOrCreate(rows, chapter_number, row),
         output |-> [status |-> "success", outline |-> outline,
                     chapter |-> [number |-> chapter_number, title |-> row.title,
                                  content |-> row.content, summary |-> row.summary],
                     metadata |-> metadata, next_steps |-> next_steps]]

\* BookWorkflowService.persist_chapter_result
PersistChapterResult(rows, outline, chapter_number, target, chapter_data, metadata, next_steps) ==
    LET content == Strip(Get(chapter_data, "content", <<>>))
        row == ChapterRow(chapter_data, target, chapter_number)
    IN  IF Len(content) = 0
        THEN [ok |-> FALSE, error |-> EmptyContentError, rows |-> rows,
              output |-> EmptyDict]
        ELSE [ok |-> TRUE, error |-> NoError, rows |-> UpdateOrCreate(rows, chapter_number, row),
              output |-> [status |-> "success", outline |-> outline,
                          chapter |-> [number |-> chapter_number, title |-> row.title,
                                       content |-> row.content, summary |-> row.summary],
                          metadata |-> metadata,
                          next_steps |-> IF Len(next_steps) > 0 THEN next_steps
                                         ELSE <<"Review the chapter and proceed to the next one.">>]]

----------------------------------------------------------------------------
(* Review: score parsing, merged revise decision, transition predicate *)

\* max(0, min(100, int(float(str(x))))), 0 when the conversion raises
ParseScore(x) ==
    IF x.kind # "num" THEN 0
    ELSE LET truncated == IF x.tenths >= 0 THEN x.tenths \div 10 ELSE -((-x.tenths) \div 10)
         IN  Max(0, Min(100, truncated))

RECURSIVE AppendAllNew(_, _)
AppendAllNew(issues, more) ==
    IF Len(more) = 0 THEN issues ELSE AppendAllNew(AppendNew(issues, more[1]), Tail(more))

GenericCritique == "Revise for stronger concept alignment, add depth, and improve section structure."

\* str.strip() on the issue texts that occur
StripIssue(i) ==
    [i EXCEPT !.text = CASE @ = " Weak examples. " -> "Weak examples." [] @ = "  " -> "" [] OTHER -> @]

IsNonBlankIssue(i) == i.text # ""

\* [str(i).strip() for i in existing_issues if str(i).strip()]
ModelIssues(existing) ==
    SelectSeq([k \in 1..Len(existing) |-> StripIssue(existing[k])], IsNonBlankIssue)

\* Variant of the review result that stores the model's critique as it came.
ReviewResultModelCritique(p, content, review_payload) ==
    LET review == Get(review_payload, "review", EmptyDict)
        score == ParseScore(Get(review, "score", Num(0)))
        explicit_should_revise == Get(review, "should_revise", FALSE)
        g == ReviewGuardrails(p, content)
        guardrail_fail == Len(g.issues) > 0
    IN  Merge(review,
              [score |-> score,
               should_revise |-> explicit_should_revise,
               effective_should_revise |-> explicit_should_revise \/ score < PassScore \/ guardrail_fail,
               guardrail_fail |-> guardrail_fail,
               guardrail_issues |-> g.issues,
               word_count |-> g.word_count,
               minimum_word_count |-> g.minimum_word_count,
               issues |-> AppendAllNew(ModelIssues(Get(review, "issues", <<>>)), g.issues),
               critique |-> StripCritique(Get(review, "critique", ""))])

\* lines 433-463 of _chapter_node_review: the review result stored in the state
ReviewResult(p, content, review_payload) ==
    LET review == Get(review_payload, "review", EmptyDict)
        score == ParseScore(Get(review, "score", Num(0)))
        explicit_should_revise == Get(review, "should_revise", FALSE)
        issues == ModelIssues(Get(review, "issues", <<>>))
        critique == StripCritique(Get(review, "critique", ""))
        g == ReviewGuardrails(p, content)
        guardrail_fail == Len(g.issues) > 0
        effective_should_revise == explicit_should_revise \/ score < PassScore \/ guardrail_fail
    IN  Merge(review,
              [score |-> score,
               should_revise |-> explicit_should_revise,
               effective_should_revise |-> effective_should_revise,
               guardrail_fail |-> guardrail_fail,
               guardrail_issues |-> g.issues,
               word_count |-> g.word_count,
               minimum_word_count |-> g.minimum_word_count,
               issues |-> AppendAllNew(issues, g.issues),
               critique |-> IF effective_should_revise /\ critique = "" THEN GenericCritique ELSE critique])

\* the stored score is an int already: max(0, min(100, int(float(str(score)))))
ReparseScore(score) == Max(0, Min(100, score))

\* Variant of the transition predicate whose budget test is inclusive.
ChapterRouteReviewInclusive(st) ==
    LET review == Get(st, "review_result", EmptyDict)
        stored == Get(review, "effective_should_revise", FALSE)
        effective == IF stored THEN TRUE
                     ELSE \/ Get(review, "should_revise", FALSE)
                          \/ ReparseScore(Get(review, "score", 0)) < PassScore
                          \/ Get(review, "guardrail_fail", FALSE)
        revision_count == Get(st, "revision_count", 0)
        limit == Get(st, "max_revisions", max_revisions)
    IN  IF effective /\ revision_count <= limit THEN "revise" ELSE "persist"

\* Variant of the transition predicate in which a passing score overrides the should_revise flag.
ChapterRouteReviewScoreFirst(st) ==
    LET review == Get(st, "review_result", EmptyDict)
        effective == \/ ReparseScore(Get(review, "score", 0)) < PassScore
                     \/ Get(review, "guardrail_fail", FALSE)
        revision_count == Get(st, "revision_count", 0)
        limit == Get(st, "max_revisions", max_revisions)
    IN  IF effective /\ revision_count < limit THEN "revise" ELSE "persist"

ChapterRouteReview(st) ==
    LET review == Get(st, "review_result", EmptyDict)
        stored == Get(review, "effective_should_revise", FALSE)
        effective == IF stored THEN TRUE
                     ELSE \/ Get(review, "should_revise", FALSE)
                          \/ ReparseScore(Get(review, "score", 0)) < PassScore
                          \/ Get(review, "guardrail_fail", FALSE)
        revision_count == Get(st, "revision_count", 0)
        limit == Get(st, "max_revisions", max_revisions)
    IN  IF effective /\ revision_count < limit THEN "revise" ELSE "persist"

----------------------------------------------------------------------------
(* State machine *)

Bump(counter) == [calls EXCEPT ![counter] = @ + 1]

\* first-seen order of the stage names reported with used_fallback = true
Report(seen, payload) ==
    IF Get(payload, "used_fallback", FALSE)
    THEN AppendAllNew(AppendAllNew(seen, Get(payload, "fallback_stages", <<>>)),
                      IF Get(payload, "fallback_stage", "") = "" THEN <<>> ELSE <<payload["fallback_stage"]>>)
    ELSE seen

\* {**state, "progress": started["progress"], "node_timings": started["node_timings"]}
WithSnapshot(st, snap) == Merge(st, [progress |-> snap.progress, node_timings |-> snap.node_timings])

InitialRow == [status |-> "queued", output_payload |-> EmptyDict, timings_json |-> EmptyDict,
               error_message |-> NoError]

\* a toc run of the same project that has completed
OtherRun ==
    [id |-> "R2", mode |-> "toc", input_payload |-> EmptyDict, status |-> "completed",
     error_message |-> NoError,
     output_payload |-> [status |-> "success",
                         progress |-> [current_node |-> "run_toc",
                                       node_status |-> [n \in {"run_toc"} |-> "completed"],
                                       completed_nodes |-> <<"run_toc">>, revision_count |-> 0]],
     timings_json |-> [total_ms |-> 1, nodes |-> [n \in {"run_toc"} |-> 1]]]

\* _build_chapter_graph: the nodes of the chapter subgraph
ChapterNodes == {"chapter_retrieve_context", "chapter_plan", "chapter_draft", "chapter_review",
                 "chapter_persist"}

\* the subgraph node left started once the writes ws have followed a state in which node
\* open was left started ("" is none): a write of status "running" starts its node, any
\* other write of the node ends it
RECURSIVE Unclosed(_, _)
Unclosed(open, ws) ==
    IF ws = <<>> THEN open
    ELSE Unclosed(IF Head(ws).node \notin ChapterNodes THEN open
                  ELSE IF Head(ws).status = "running" THEN Head(ws).node
                  ELSE IF Head(ws).node = open THEN "" ELSE open, Tail(ws))

\* the calls of _persist_run_telemetry a handler makes, in order, after those made so far
Logged(ws) == [open |-> Unclosed(writes.open, writes.log), log |-> ws]

\* no telemetry write has been made
NoWrites == [open |-> "", log |-> <<>>]

\* no tracker call has been made
NothingHanded == Kept([progress |-> EmptyDict, node_timings |-> EmptyDict])

\* no draft has been asked for
NoDraftCall == [critique |-> "", previous_draft |-> <<>>, chapter_plan |-> EmptyDict]

\* no collaborator has been called
NoCalls == [context |-> 0, plan |-> 0, draft |-> 0, review |-> 0, persist |-> 0,
            toc |-> 0, refine_toc |-> 0, export |-> 0, profile_assistant |-> 0]

InitIn(families) ==
    /\ env \in families
    /\ run_exists \in BOOLEAN
    /\ \E mode \in ModeInputs :
         \E inputs \in (IF ModeLower(ModeStrip(mode)) = "chapter" THEN ChapterInputs ELSE {EmptyDict}) :
           run = Merge(InitialRow, [id |-> "R1", mode |-> mode, input_payload |-> inputs])
    /\ \E n \in OutlineSizes, meta \in ProfilesOf(env) :
         project = [outline_chapters |-> n, metadata_json |-> meta]
    /\ chapters = <<>>
    /\ pc = "queued"
    /\ state = EmptyDict
    /\ cstate = EmptyDict
    /\ started = EmptyDict
    /\ exc = NoError
    /\ result = EmptyDict
    /\ calls = NoCalls
    /\ reported = <<>>
    /\ last_node = ""
    /\ attempt = 1
    /\ draft_call = NoDraftCall
    /\ handed = NothingHanded
    /\ other_run = OtherRun
    /\ writes = NoWrites

Init == InitIn(Envs)

StubInit == InitIn(StubEnvs)

\* execute_agent_run, lines 17-24
TaskStart ==
    /\ pc = "queued"
    /\ IF run_exists
       THEN /\ run' = [run EXCEPT !.status = "running", !.error_message = NoError]
            /\ pc' = "execute"
       ELSE /\ pc' = "not_found"
            /\ UNCHANGED run
    /\ UNCHANGED <<writes, other_run, handed, draft_call, attempt, env, run_exists, project, chapters, state, cstate, started, exc, result, calls,
                   reported, last_node>>

\* Variant of the router that sends an unknown mode to the toc handler.
RouteModeDefaultToc(st) ==
    LET mode == ModeLower(ModeStrip(Get(st, "mode", "")))
    IN  IF mode \in RunModes THEN [ok |-> TRUE, node |-> mode]
        ELSE [ok |-> TRUE, node |-> "toc"]

\* _route_mode
RouteMode(st) ==
    LET mode == ModeLower(ModeStrip(Get(st, "mode", "")))
    IN  IF mode \in RunModes THEN [ok |-> TRUE, node |-> mode]
        ELSE [ok |-> FALSE, node |-> ""]

ModeError == Err("mode must be one of: toc | refine_toc | chapter | export | profile_assistant", 78)

\* execute, lines 62-73: the initial state and the entry edge of the top-level graph
ExecuteStart ==
    /\ pc = "execute"
    /\ LET st == [run_id |-> run.id, mode |-> ModeStrip(run.mode), inputs |-> run.input_payload,
                  fallback_stages |-> <<>>,
                  progress |-> [current_node |-> "", node_status |-> EmptyDict,
                                completed_nodes |-> <<>>, revision_count |-> 0],
                  node_timings |-> EmptyDict]
           route == RouteMode(st)
       IN  /\ state' = st
           /\ IF route.ok
              THEN pc' = (IF route.node = "chapter" THEN "run_chapter" ELSE "run_workflow") /\ exc' = exc
              ELSE pc' = "raised" /\ exc' = ModeError
    /\ UNCHANGED <<writes, other_run, handed, draft_call, attempt, env, run, run_exists, project, chapters, cstate, started, result, calls, reported,
                   last_node>>

\* _execute_workflow_node, for _node_toc, _node_refine_toc, _node_export, _node_profile_assistant
\* _build_graph: the node the entry edge maps a mode to
NodeOf(mode) ==
    CASE mode = "toc" -> "run_toc" [] mode = "refine_toc" -> "run_refine_toc"
      [] mode = "chapter" -> "run_chapter" [] mode = "export" -> "run_export"
      [] OTHER -> "run_profile_assistant"

\* Variant in which the refine node calls the handler of toc.
HandlerModeCopied(node_name) ==
    CASE node_name \in {"run_toc", "run_refine_toc"} -> "toc"
      [] node_name = "run_export" -> "export" [] OTHER -> "profile_assistant"

\* _node_toc, _node_refine_toc, _node_export, _node_profile_assistant: the mode each passes on
HandlerMode(node_name) ==
    CASE node_name = "run_toc" -> "toc" [] node_name = "run_refine_toc" -> "refine_toc"
      [] node_name = "run_export" -> "export" [] OTHER -> "profile_assistant"

ExecuteWorkflowNode ==
    /\ pc = "run_workflow"
    /\ \E node_name \in {NodeOf(RouteMode(state).node)}, ms \in NodeDurations(env),
          w1 \in WriteOutcomes(env), w2 \in WriteOutcomes(env) :
       \E mode \in {HandlerMode(node_name)} :
       \E s \in {MarkNodeStart(run, run_exists /\ w1, state, node_name, FALSE, 0)} :
       \E st1 \in {WithSnapshot(state, s)} :
         \/ \E output \in ModePayloads(env, mode) :
            \E fallback_stages \in {MergeFallbackStages(Get(state, "fallback_stages", <<>>), output)} :
            \E e \in {MarkNodeEnd(s.row, run_exists /\ w2, st1, node_name, ms, EmptyDict, FALSE, 0)} :
              /\ run' = e.row
              /\ handed' = e.handed /\ other_run' = e.other /\ writes' = Logged(<<s.write, e.write>>)
              /\ state' = Merge(state, [output |-> WithFallbackOutput(output, fallback_stages),
                                        fallback_stages |-> fallback_stages,
                                        progress |-> e.progress, node_timings |-> e.node_timings])
              /\ reported' = Report(reported, output)
              /\ pc' = "finish"
              /\ exc' = exc
         \/ \E e \in {MarkNodeError(s.row, run_exists /\ w2, st1, node_name, ProviderError, ms, FALSE, 0)} :
              /\ run' = e.row
              /\ handed' = e.handed /\ other_run' = e.other /\ writes' = Logged(<<s.write, e.write>>)
              /\ exc' = ProviderError
              /\ pc' = "raised"
              /\ UNCHANGED <<state, reported>>
    /\ calls' = Bump(HandlerMode(NodeOf(RouteMode(state).node)))
    /\ UNCHANGED <<draft_call, attempt, env, run_exists, project, chapters, cstate, started, result, last_node>>

\* Variant that resumes the revision count and the fallback stages the subgraph state holds.
ChapterStateResumed(st, s) ==
    [run_id |-> Get(st, "run_id", ""), inputs |-> Get(st, "inputs", EmptyDict),
     revision_count |-> Get(cstate, "revision_count", 0), max_revisions |-> max_revisions,
     fallback_stages |-> Get(cstate, "fallback_stages", <<>>),
     progress |-> s.progress, node_timings |-> s.node_timings]

\* _node_chapter, lines 207-218: chapter_state, built from the router's state st and the
\* snapshot s of _mark_node_start
ChapterState(st, s) ==
    [run_id |-> Get(st, "run_id", ""), inputs |-> Get(st, "inputs", EmptyDict),
     revision_count |-> 0, max_revisions |-> max_revisions,
     fallback_stages |-> Get(st, "fallback_stages", <<>>),
     progress |-> s.progress, node_timings |-> s.node_timings]

\* _node_chapter, lines 206-218: the subgraph's initial state
NodeChapterEnter ==
    /\ pc = "run_chapter"
    /\ \E w1 \in WriteOutcomes(env) :
       \E s \in {MarkNodeStart(run, run_exists /\ w1, state, "run_chapter", FALSE, 0)} :
         /\ run' = s.row
         /\ handed' = s.handed /\ other_run' = s.other /\ writes' = Logged(<<s.write>>)
         /\ started' = [progress |-> s.progress, node_timings |-> s.node_timings]
         /\ cstate' = ChapterState(state, s)
    /\ pc' = "chapter_retrieve_context"
    /\ UNCHANGED <<draft_call, attempt, env, run_exists, project, chapters, state, exc, result, calls, reported, last_node>>

ChapterNodeRetrieveContext ==
    /\ pc = "chapter_retrieve_context"
    /\ \E node_name \in {"chapter_retrieve_context"}, ms \in NodeDurations(env),
          w1 \in WriteOutcomes(env), w2 \in WriteOutcomes(env) :
       \E s \in {MarkNodeStart(run, run_exists /\ w1, cstate, node_name, FALSE, 0)} :
       \E st1 \in {WithSnapshot(cstate, s)} :
       \E got \in {PrepareChapterContext(project, Get(cstate, "inputs", EmptyDict))} :
         IF got.ok
         THEN \E e \in {MarkNodeEnd(s.row, run_exists /\ w2, st1, node_name, ms, EmptyDict, FALSE, 0)} :
                /\ run' = e.row
                /\ handed' = e.handed /\ other_run' = e.other /\ writes' = Logged(<<s.write, e.write>>)
                /\ cstate' = Merge(cstate,
                      [outline |-> got.ctx.outline, chapter_number |-> got.ctx.chapter_number,
                       target |-> got.ctx.target, memory_context |-> got.ctx.memory_context,
                       knowledge_context |-> got.ctx.knowledge_context,
                       review_result |-> EmptyDict,
                       revision_count |-> Get(cstate, "revision_count", 0),
                       max_revisions |-> Get(cstate, "max_revisions", max_revisions),
                       fallback_stages |-> Get(cstate, "fallback_stages", <<>>),
                       progress |-> e.progress, node_timings |-> e.node_timings])
                /\ pc' = "chapter_plan"
                /\ exc' = exc
         ELSE \E e \in {MarkNodeError(s.row, run_exists /\ w2, st1, node_name, got.error, ms, FALSE, 0)} :
                /\ run' = e.row
                /\ handed' = e.handed /\ other_run' = e.other /\ writes' = Logged(<<s.write, e.write>>)
                /\ exc' = got.error
                /\ pc' = "chapter_raise"
                /\ UNCHANGED cstate
    /\ calls' = Bump("context")
    /\ last_node' = "chapter_retrieve_context"
    /\ UNCHANGED <<draft_call, attempt, env, run_exists, project, chapters, state, started, result, reported>>

ChapterNodePlan ==
    /\ pc = "chapter_plan"
    /\ \E node_name \in {"chapter_plan"}, ms \in NodeDurations(env),
          w1 \in WriteOutcomes(env), w2 \in WriteOutcomes(env) :
       \E s \in {MarkNodeStart(run, run_exists /\ w1, cstate, node_name, FALSE, 0)} :
       \E st1 \in {WithSnapshot(cstate, s)} :
         \/ \E plan_payload \in PlanPayloads(env) :
            \E fallback_stages \in {MergeFallbackStages(Get(cstate, "fallback_stages", <<>>), plan_payload)} :
            \E e \in {MarkNodeEnd(s.row, run_exists /\ w2, st1, node_name, ms,
                                  [used_fallback |-> Get(plan_payload, "used_fallback", FALSE)], FALSE, 0)} :
              /\ run' = e.row
              /\ handed' = e.handed /\ other_run' = e.other /\ writes' = Logged(<<s.write, e.write>>)
              /\ cstate' = Merge(cstate, [chapter_plan |-> Get(plan_payload, "plan", EmptyDict),
                                          fallback_stages |-> fallback_stages,
                                          progress |-> e.progress, node_timings |-> e.node_timings])
              /\ reported' = Report(reported, plan_payload)
              /\ pc' = "chapter_draft"
              /\ exc' = exc
         \/ \E e \in {MarkNodeError(s.row, run_exists /\ w2, st1, node_name, ProviderError, ms, FALSE, 0)} :
              /\ run' = e.row
              /\ handed' = e.handed /\ other_run' = e.other /\ writes' = Logged(<<s.write, e.write>>)
              /\ exc' = ProviderError
              /\ pc' = "chapter_raise"
              /\ UNCHANGED <<cstate, reported>>
    /\ calls' = Bump("plan")
    /\ last_node' = "chapter_plan"
    /\ UNCHANGED <<draft_call, attempt, env, run_exists, project, chapters, state, started, result>>

\* lines 353-356 and 382-384 of _chapter_node_draft
DraftCritique(st) == StripCritique(Get(Get(st, "review_result", EmptyDict), "critique", ""))

\* Variant of the draft node that passes no previous draft.
PreviousDraftNone(st) == <<>>

\* lines 357-360 of _chapter_node_draft: the stored draft's content, trimmed
PreviousDraft(st) == Strip(Get(Get(st, "chapter_draft", EmptyDict), "content", <<>>))

\* lines 363-372 of _chapter_node_draft: the critique, previous_draft and chapter_plan
\* arguments of the draft call
DraftCallOf(st) ==
    [critique |-> DraftCritique(st), previous_draft |-> PreviousDraft(st),
     chapter_plan |-> Get(st, "chapter_plan", EmptyDict)]

\* Variant of the counter update that counts every draft, first draft included.
DraftRevisionCountAlways(st) == Get(st, "revision_count", 0) + 1

DraftRevisionCount(st) ==
    IF DraftCritique(st) # "" THEN Get(st, "revision_count", 0) + 1 ELSE Get(st, "revision_count", 0)

ChapterNodeDraft ==
    /\ pc = "chapter_draft"
    /\ \E node_name \in {"chapter_draft"}, ms \in NodeDurations(env),
          w1 \in WriteOutcomes(env), w2 \in WriteOutcomes(env) :
       \E s \in {MarkNodeStart(run, run_exists /\ w1, cstate, node_name, FALSE, 0)} :
       \E st1 \in {WithSnapshot(cstate, s)} :
         \/ \E draft_payload \in DraftPayloads(env, Get(cstate, "chapter_number", 0), calls.draft + 1) :
            \E revision_count \in {DraftRevisionCount(cstate)} :
            \E fallback_stages \in {MergeFallbackStages(Get(cstate, "fallback_stages", <<>>), draft_payload)} :
            \E e \in {MarkNodeEnd(s.row, run_exists /\ w2, st1, node_name, ms,
                                  [used_fallback |-> Get(draft_payload, "used_fallback", FALSE)],
                                  TRUE, revision_count)} :
              /\ run' = e.row
              /\ handed' = e.handed /\ other_run' = e.other /\ writes' = Logged(<<s.write, e.write>>)
              /\ cstate' = Merge(cstate, [chapter_draft |-> Get(draft_payload, "chapter", EmptyDict),
                                          chapter_metadata |-> Get(draft_payload, "metadata", EmptyDict),
                                          chapter_next_steps |-> Get(draft_payload, "next_steps", <<>>),
                                          revision_count |-> revision_count,
                                          fallback_stages |-> fallback_stages,
                                          progress |-> e.progress, node_timings |-> e.node_timings])
              /\ reported' = Report(reported, draft_payload)
              /\ pc' = "chapter_review"
              /\ exc' = exc
         \/ \E e \in {MarkNodeError(s.row, run_exists /\ w2, st1, node_name, ProviderError, ms, FALSE, 0)} :
              /\ run' = e.row
              /\ handed' = e.handed /\ other_run' = e.other /\ writes' = Logged(<<s.write, e.write>>)
              /\ exc' = ProviderError
              /\ pc' = "chapter_raise"
              /\ UNCHANGED <<cstate, reported>>
    /\ calls' = Bump("draft")
    /\ last_node' = "chapter_draft"
    /\ draft_call' = DraftCallOf(cstate)
    /\ UNCHANGED <<attempt, env, run_exists, project, chapters, state, started, result>>

\* _chapter_node_review, followed by the conditional edge _chapter_route_review
ChapterNodeReview ==
    /\ pc = "chapter_review"
    /\ \E node_name \in {"chapter_review"}, ms \in NodeDurations(env),
          w1 \in WriteOutcomes(env), w2 \in WriteOutcomes(env) :
       \E s \in {MarkNodeStart(run, run_exists /\ w1, cstate, node_name, FALSE, 0)} :
       \E st1 \in {WithSnapshot(cstate, s)} :
       \E content \in {Strip(Get(Get(cstate, "chapter_draft", EmptyDict), "content", <<>>))} :
         \/ \E review_payload \in ReviewPayloads(env) :
            \E review \in {ReviewResult(project, content, review_payload)} :
            \E fallback_stages \in {MergeFallbackStages(Get(cstate, "fallback_stages", <<>>), review_payload)} :
            \E e \in {MarkNodeEnd(s.row, run_exists /\ w2, st1, node_name, ms,
                                  [score |-> review["score"],
                                   effective_should_revise |-> review["effective_should_revise"],
                                   used_fallback |-> Get(review_payload, "used_fallback", FALSE)],
                                  TRUE, Get(cstate, "revision_count", 0))} :
            \E next \in {Merge(cstate, [review_result |-> review,
                                        fallback_stages |-> fallback_stages,
                                        progress |-> e.progress, node_timings |-> e.node_timings])} :
              /\ run' = e.row
              /\ handed' = e.handed /\ other_run' = e.other /\ writes' = Logged(<<s.write, e.write>>)
              /\ cstate' = next
              /\ reported' = Report(reported, review_payload)
              /\ pc' = (IF ChapterRouteReview(next) = "revise" THEN "chapter_draft" ELSE "chapter_persist")
              /\ exc' = exc
         \/ \E e \in {MarkNodeError(s.row, run_exists /\ w2, st1, node_name, ProviderError, ms, FALSE, 0)} :
              /\ run' = e.row
              /\ handed' = e.handed /\ other_run' = e.other /\ writes' = Logged(<<s.write, e.write>>)
              /\ exc' = ProviderError
              /\ pc' = "chapter_raise"
              /\ UNCHANGED <<cstate, reported>>
    /\ calls' = Bump("review")
    /\ last_node' = "chapter_review"
    /\ UNCHANGED <<draft_call, attempt, env, run_exists, project, chapters, state, started, result>>

\* Variant of the persisted metadata that leaves the review out.
CombinedMetadataNoReview(st) == Get(st, "chapter_metadata", EmptyDict)

\* lines 508-510 of _chapter_node_persist
CombinedMetadata(st) ==
    Put(Get(st, "chapter_metadata", EmptyDict), "review", Get(st, "review_result", EmptyDict))

ChapterNodePersist ==
    /\ pc = "chapter_persist"
    /\ \E node_name \in {"chapter_persist"}, ms \in NodeDurations(env),
          w1 \in WriteOutcomes(env), w2 \in WriteOutcomes(env),
          rc \in {Get(cstate, "revision_count", 0)} :
       \E s \in {MarkNodeStart(run, run_exists /\ w1, cstate, node_name, TRUE, rc)} :
       \E st1 \in {WithSnapshot(cstate, s)} :
       \E done \in PersistResults(env,
                       PersistChapterResult(chapters, Get(cstate, "outline", EmptyDict),
                                            Get(cstate, "chapter_number", 0), Get(cstate, "target", EmptyDict),
                                            Get(cstate, "chapter_draft", EmptyDict), CombinedMetadata(cstate),
                                            Get(cstate, "chapter_next_steps", <<>>))) :
         \/ /\ done.ok
            /\ \E fallback_stages \in {Get(cstate, "fallback_stages", <<>>)} :
               \E e \in {MarkNodeEnd(s.row, run_exists /\ w2, st1, node_name, ms,
                                     [revision_count |-> rc], TRUE, rc)} :
                 /\ run' = e.row
                 /\ handed' = e.handed /\ other_run' = e.other /\ writes' = Logged(<<s.write, e.write>>)
                 /\ cstate' = Merge(cstate, [output |-> WithFallbackOutput(done.output, fallback_stages),
                                             fallback_stages |-> fallback_stages,
                                             progress |-> e.progress, node_timings |-> e.node_timings])
                 /\ chapters' = done.rows
                 /\ pc' = "chapter_exit"
                 /\ exc' = exc
         \/ \E error \in (IF done.ok THEN {StorageError} ELSE {done.error}) :
            \E e \in {MarkNodeError(s.row, run_exists /\ w2, st1, node_name, error, ms, TRUE, rc)} :
              /\ run' = e.row
              /\ handed' = e.handed /\ other_run' = e.other /\ writes' = Logged(<<s.write, e.write>>)
              /\ exc' = error
              /\ pc' = "chapter_raise"
              /\ UNCHANGED <<cstate, chapters>>
    /\ calls' = Bump("persist")
    /\ last_node' = "chapter_persist"
    /\ UNCHANGED <<draft_call, attempt, env, run_exists, project, state, started, result, reported>>

InvalidOutputError == Err("Chapter graph returned invalid output payload", 45)

\* _node_chapter, lines 221-233: chapter_graph.invoke raised
NodeChapterExcept ==
    /\ pc = "chapter_raise"
    /\ \E ms \in NodeDurations(env), w2 \in WriteOutcomes(env) :
       \E st \in {Merge(state, [progress |-> started.progress, node_timings |-> started.node_timings,
                                revision_count |-> 0])} :
       \E e \in {MarkNodeError(run, run_exists /\ w2, st, "run_chapter", exc, ms, FALSE, 0)} :
         run' = e.row /\ handed' = e.handed /\ other_run' = e.other /\ writes' = Logged(<<e.write>>)
    /\ pc' = "raised"
    /\ UNCHANGED <<draft_call, attempt, env, run_exists, project, chapters, state, cstate, started, exc, result, calls,
                   reported, last_node>>

\* _node_chapter, lines 235-272: chapter_graph.invoke returned
NodeChapterExit ==
    /\ pc = "chapter_exit"
    /\ \E ms \in NodeDurations(env), w2 \in WriteOutcomes(env), output \in {Get(cstate, "output", EmptyDict)},
          rc \in {Get(cstate, "revision_count", 0)} :
       \E st \in {Merge(state, [progress |-> Get(cstate, "progress", started.progress),
                                node_timings |-> Get(cstate, "node_timings", started.node_timings),
                                revision_count |-> rc])} :
         IF DOMAIN output = {}
         THEN \E e \in {MarkNodeError(run, run_exists /\ w2, st, "run_chapter", InvalidOutputError, ms, FALSE, 0)} :
                /\ run' = e.row
                /\ handed' = e.handed /\ other_run' = e.other /\ writes' = Logged(<<e.write>>)
                /\ exc' = InvalidOutputError
                /\ pc' = "raised"
                /\ UNCHANGED state
         ELSE \E fallback_stages \in {Get(cstate, "fallback_stages", <<>>)} :
              \E e \in {MarkNodeEnd(run, run_exists /\ w2, st, "run_chapter", ms,
                                    [revision_count |-> rc], TRUE, rc)} :
                /\ run' = e.row
                /\ handed' = e.handed /\ other_run' = e.other /\ writes' = Logged(<<e.write>>)
                /\ state' = Merge(state, [output |-> WithFallbackOutput(output, fallback_stages),
                                          fallback_stages |-> fallback_stages,
                                          progress |-> e.progress, node_timings |-> e.node_timings,
                                          revision_count |-> rc])
                /\ pc' = "finish"
                /\ exc' = exc
    /\ UNCHANGED <<draft_call, attempt, env, run_exists, project, chapters, cstate, started, result, calls, reported, last_node>>

ExecutionError == Err("LangGraph execution returned invalid output payload", 51)

\* execute, lines 74-99
ExecuteFinish ==
    /\ pc = "finish"
    /\ LET output == Get(state, "output", EmptyDict)
           r1 == IF "fallback_stages" \in DOMAIN output THEN output
                 ELSE Put(output, "fallback_stages", Get(state, "fallback_stages", <<>>))
           r2 == IF "used_fallback" \in DOMAIN r1 THEN r1
                 ELSE Put(r1, "used_fallback", Len(r1["fallback_stages"]) > 0)
           r3 == Put(r2, "progress", Get(state, "progress", EmptyDict))
       IN  IF DOMAIN output = {}
           THEN /\ exc' = ExecutionError
                /\ pc' = "raised"
                /\ UNCHANGED result
           ELSE \E total_ms \in NodeDurations(env) :
                  /\ result' = Put(r3, "timings_ms", [total_ms |-> total_ms,
                                                      nodes |-> Get(state, "node_timings", EmptyDict)])
                  /\ pc' = "returned"
                  /\ exc' = exc
    /\ UNCHANGED <<writes, other_run, handed, draft_call, attempt, env, run, run_exists, project, chapters, state, cstate, started, calls, reported, last_node>>

\* execute_agent_run, lines 29-34
TaskCompleted ==
    /\ pc = "returned"
    /\ run' = [run EXCEPT !.output_payload = result,
                          !.timings_json = Get(result, "timings_ms", EmptyDict),
                          !.status = "completed"]
    /\ pc' = "done"
    /\ UNCHANGED <<writes, other_run, handed, draft_call, attempt, env, run_exists, project, chapters, state, cstate, started, exc, result, calls,
                   reported, last_node>>

\* Variant of the task that swallows the exception and records the run as completed.
TaskFailedSwallowed ==
    /\ pc = "raised"
    /\ run' = [run EXCEPT !.status = "completed", !.output_payload = EmptyDict,
                          !.timings_json = EmptyDict]
    /\ pc' = "done"
    /\ UNCHANGED <<writes, other_run, handed, draft_call, attempt, env, run_exists, project, chapters, state, cstate, started, exc, result, calls,
                   reported, last_node>>

\* execute_agent_run, lines 35-41
TaskFailed ==
    /\ pc = "raised"
    /\ run' = [run EXCEPT !.status = "failed",
                          !.error_message = IF exc.len > 0 THEN Truncate(exc, TaskErrorLimit)
                                            ELSE Err("Agent execution failed", 22)]
    /\ pc' = "done"
    /\ UNCHANGED <<writes, other_run, handed, draft_call, attempt, env, run_exists, project, chapters, state, cstate, started, exc, result, calls,
                   reported, last_node>>

Next ==
    \/ TaskStart
    \/ ExecuteStart
    \/ ExecuteWorkflowNode
    \/ NodeChapterEnter
    \/ ChapterNodeRetrieveContext
    \/ ChapterNodePlan
    \/ ChapterNodeDraft
    \/ ChapterNodeReview
    \/ ChapterNodePersist
    \/ NodeChapterExcept
    \/ NodeChapterExit
    \/ ExecuteFinish
    \/ TaskCompleted
    \/ TaskFailed

Spec == Init /\ [][Next]_vars

\* execute_agent_run is started again for a run it has finished: the row and the stored
\* chapters are what the earlier attempt left, the new call has its own orchestrator and
\* locals (state, cstate and started still hold what the dead frames held until the new call
\* assigns them)
TaskRetry ==
    /\ pc = "done"
    /\ attempt < MaxAttempts
    /\ attempt' = attempt + 1
    /\ pc' = "queued"
    /\ exc' = NoError
    /\ result' = EmptyDict
    /\ calls' = NoCalls
    /\ reported' = <<>>
    /\ last_node' = ""
    /\ draft_call' = NoDraftCall
    /\ handed' = NothingHanded
    /\ UNCHANGED <<writes, other_run, env, run, run_exists, project, chapters, state, cstate, started>>

RetryNext == Next \/ TaskRetry

\* re-execution is followed in the families in which fallbacks and telemetry vary
RetryInit == InitIn({"fallback", "telemetry"})

\* the engine when a finished run may be executed again
RetrySpec == RetryInit /\ [][RetryNext]_vars

\* the same engine with a replaced persistence collaborator
StubSpec == StubInit /\ [][Next]_vars

\* a run is driven by one synchronous call stack: whatever step is enabled is taken
FairSpec == Spec /\ WF_vars(Next)

----------------------------------------------------------------------------
(* Vocabulary of the properties *)

ChapterRun == ModeLower(ModeStrip(run.mode)) = "chapter"

\* REVIEW has just returned and the conditional edge has chosen the next node
AfterReview == last_node = "chapter_review" /\ pc \in {"chapter_draft", "chapter_persist"}

LastReview == Get(cstate, "review_result", EmptyDict)

\* the draft the last REVIEW looked at
DraftContent == Strip(Get(Get(cstate, "chapter_draft", EmptyDict), "content", <<>>))

OutputProgress == Get(result, "progress", EmptyDict)

OutputReview == Get(Get(result, "metadata", EmptyDict), "review", EmptyDict)

\* node_status as stored in AgentRun.output_payload.progress
PersistedStatus == Get(Get(run.output_payload, "progress", EmptyDict), "node_status", EmptyDict)

ChapterNumberInput == Get(run.input_payload, "chapter_number", BadVal)

\* every telemetry write of the execution goes through
WritesSucceed == env # "telemetry"

----------------------------------------------------------------------------
(* Revision budget *)

RevisionCountInRange ==
    /\ Get(cstate, "revision_count", 0) >= 0
    /\ Get(cstate, "revision_count", 0) <= Get(cstate, "max_revisions", max_revisions)
    /\ Get(cstate, "max_revisions", max_revisions) = max_revisions
    /\ pc \in {"returned", "done"} /\ DOMAIN result # {}
         => Get(OutputProgress, "revision_count", -1) \in 0..max_revisions

\* C1: throughout a chapter run 0 <= revision_count <= max_revisions (= 2), the counter never
\* decreases from one node execution to the next, and the progress.revision_count of every
\* returned output lies in [0, max_revisions].
C1_RevisionCountBounded ==
    /\ []RevisionCountInRange
    /\ [][Get(cstate', "revision_count", 0) >= Get(cstate, "revision_count", 0)]_vars

\* a run returned with the budget used up
C1_Witness ==
    /\ pc = "returned"
    /\ ChapterRun
    /\ Get(OutputProgress, "revision_count", -1) = max_revisions
    /\ Get(cstate, "revision_count", 0) = max_revisions

\* C2: a chapter run in which no collaborator call raises reaches PERSIST, and no run executes
\* DRAFT or REVIEW more than max_revisions + 1 times.
C2_ReachesPersist ==
    /\ [](calls.draft <= max_revisions + 1 /\ calls.review <= max_revisions + 1)
    /\ (pc = "chapter_retrieve_context") ~> (pc = "chapter_raise" \/ calls.persist >= 1)

\* PERSIST reached after the largest number of drafts and reviews
C2_Witness ==
    /\ last_node = "chapter_persist"
    /\ exc = NoError
    /\ calls.draft = max_revisions + 1
    /\ calls.review = max_revisions + 1

\* C3: after every REVIEW the next node is DRAFT exactly when (should_revise or score < 80 or
\* guardrail_fail) and revision_count < max_revisions, and PERSIST otherwise.
C3_RouteAfterReview ==
    AfterReview =>
        LET wants == \/ Get(LastReview, "should_revise", FALSE)
                     \/ Get(LastReview, "score", 0) < PassScore
                     \/ Get(LastReview, "guardrail_fail", FALSE)
            budget == Get(cstate, "revision_count", 0) < max_revisions
        IN  /\ (pc = "chapter_draft") <=> (wants /\ budget)
            /\ (pc = "chapter_persist") <=> ~(wants /\ budget)

\* the review model asks for a revision with score 95 and no guardrail issue: DRAFT is next
C3_Witness ==
    /\ AfterReview
    /\ Get(LastReview, "should_revise", FALSE)
    /\ Get(LastReview, "score", 0) = 95
    /\ ~Get(LastReview, "guardrail_fail", TRUE)
    /\ pc = "chapter_draft"

\* every REVIEW of the run returned a result that asked for a revision: a review that did
\* not would have ended the loop, so it is enough to look at the last one
EveryReviewRevised ==
    /\ calls.review >= 1
    /\ Get(LastReview, "effective_should_revise", FALSE)

FullLoop ==
    /\ calls.plan = 1
    /\ calls.draft = 3
    /\ calls.review = 3
    /\ calls.persist = 1
    /\ run.status = "completed"
    /\ Get(result, "status", "") = "success"
    /\ Get(OutputProgress, "revision_count", -1) = 2

\* C4 as stated, for the runs in which neither the provider nor the storage fails: if every
\* review triggers revision then plan runs once, draft and review three times, persist once,
\* the run returns status "success" and the final progress.revision_count is 2.
C4_AsStated ==
    pc = "done" /\ ChapterRun /\ EveryReviewRevised /\ exc \notin {ProviderError, StorageError}
        => FullLoop

\* C4: if every review triggers revision, neither the provider nor the storage fails and the
\* last draft is not empty after trimming, then plan runs once, draft and review three times,
\* persist once, the run returns status "success" and the final progress.revision_count is 2.
C4_FullLoop ==
    /\ pc = "done"
    /\ ChapterRun
    /\ EveryReviewRevised
    /\ exc \notin {ProviderError, StorageError}
    /\ Len(DraftContent) > 0
    => FullLoop

C4_Witness ==
    /\ pc = "done"
    /\ ChapterRun
    /\ EveryReviewRevised
    /\ Len(DraftContent) > 0
    /\ FullLoop

----------------------------------------------------------------------------
(* Guardrails and the persisted review *)

\* C5: a draft without a "## " heading or below the minimum word count makes REVIEW store
\* guardrail_fail = true and effective_should_revise = true, whatever the model said.
C5_GuardrailForcesRevision ==
    AfterReview /\ (~HasSectionHeading(DraftContent)
                    \/ TokenCount(DraftContent) < MinimumWordCountForProject(project))
        => /\ Get(LastReview, "guardrail_fail", FALSE)
           /\ Get(LastReview, "effective_should_revise", FALSE)

\* the model is satisfied (should_revise false, score 95) and only the heading is missing
C5_Witness ==
    /\ AfterReview
    /\ ~Get(LastReview, "should_revise", TRUE)
    /\ Get(LastReview, "score", 0) = 95
    /\ ~HasSectionHeading(DraftContent)
    /\ TokenCount(DraftContent) >= MinimumWordCountForProject(project)
    /\ Get(LastReview, "guardrail_fail", FALSE)
    /\ Get(LastReview, "effective_should_revise", FALSE)

\* C6: metadata.review of a successful chapter run's output is the result of the last REVIEW;
\* if that review still wanted a revision (the run persisted because the budget was used up)
\* it is returned with effective_should_revise = true.
C6_PersistedReview ==
    pc = "returned" /\ ChapterRun
        => /\ DOMAIN LastReview # {}
           /\ OutputReview = LastReview
           /\ (\/ Get(OutputReview, "should_revise", FALSE)
               \/ Get(OutputReview, "score", 0) < PassScore
               \/ Get(OutputReview, "guardrail_fail", FALSE))
                 => /\ Get(OutputReview, "effective_should_revise", FALSE)
                    /\ Get(OutputProgress, "revision_count", -1) = max_revisions

\* persisted with the budget used up while the last review still failed the guardrails
C6_Witness ==
    /\ pc = "returned"
    /\ ChapterRun
    /\ calls.review = max_revisions + 1
    /\ Get(OutputReview, "guardrail_fail", FALSE)
    /\ Get(OutputReview, "effective_should_revise", FALSE)
    /\ Get(OutputProgress, "revision_count", -1) = max_revisions

----------------------------------------------------------------------------
(* Fallback provenance *)

C8_UsedFallbackIffStages ==
    pc \in {"returned", "done"} /\ DOMAIN result # {}
        => /\ "used_fallback" \in DOMAIN result
           /\ "fallback_stages" \in DOMAIN result
           /\ result["used_fallback"] <=> (Len(result["fallback_stages"]) > 0)
           /\ (reported = <<>>) => (result["fallback_stages"] = <<>> /\ ~result["used_fallback"])

\* a chapter run whose only fallback was the draft stage
C8_Witness ==
    /\ pc = "returned"
    /\ ChapterRun
    /\ result["fallback_stages"] = <<"chapter_draft">>
    /\ result["used_fallback"]

----------------------------------------------------------------------------
(* Failures inside the chapter subgraph *)

NoOutline == project.outline_chapters = 0

OutOfRange == ChapterNumberInput.ok /\ ChapterNumberInput.v \notin 1..project.outline_chapters

\* C9: with a chapter_number outside [1, N] or a project without an outline, the run raises in
\* RETRIEVE_CONTEXT: no plan, draft, review or persist call is ever made, and when the node
\* raises chapter_retrieve_context is stored as failed (telemetry being best-effort, in the
\* executions whose telemetry writes go through).
C9_RejectedInRetrieveContext ==
    ChapterRun /\ (NoOutline \/ OutOfRange)
        => /\ calls.plan = 0 /\ calls.draft = 0 /\ calls.review = 0 /\ calls.persist = 0
           /\ chapters = EmptyDict
           /\ calls.context >= 1 => /\ pc \in {"chapter_raise", "raised", "done"}
                                    /\ last_node = "chapter_retrieve_context"
                                    /\ exc.len > 0
           /\ pc = "chapter_raise" /\ WritesSucceed
                => Get(PersistedStatus, "chapter_retrieve_context", "") = "failed"

\* the chapter one past the end of the outline has just been rejected
C9_Witness ==
    /\ pc = "chapter_raise"
    /\ last_node = "chapter_retrieve_context"
    /\ ChapterNumberInput = IntVal(MaxOutline + 1)
    /\ project.outline_chapters = MaxOutline
    /\ calls.context = 1
    /\ Get(PersistedStatus, "chapter_retrieve_context", "") = "failed"

\* C10: once a chapter run has been aborted by a subgraph node that raised, the stored
\* output.progress records that node as failed, next to the statuses of the subgraph nodes
\* that completed before it.
C10_SubgraphTelemetryKept ==
    pc \in {"raised", "done"} /\ ChapterRun /\ last_node # "" /\ exc.len > 0
        => LET seen == Get(Get(cstate, "progress", EmptyDict), "node_status", EmptyDict)
           IN  /\ Get(PersistedStatus, last_node, "") = "failed"
               /\ \A n \in DOMAIN seen \ {last_node, "run_chapter"} :
                     Get(PersistedStatus, n, "") = seen[n]

----------------------------------------------------------------------------
(* Telemetry failures, the mode router *)

\* the progress a chapter run returns after k drafts when no stage fell back
ProgressAfter(k, review) ==
    [current_node |-> "run_chapter",
     node_status |-> [n \in ChapterNodes \cup {"run_chapter"} |-> "completed"],
     completed_nodes |-> <<"chapter_retrieve_context", "chapter_plan", "chapter_draft",
                           "chapter_review", "chapter_persist", "run_chapter">>,
     revision_count |-> k - 1,
     node_meta |-> [chapter_plan |-> [used_fallback |-> FALSE],
                    chapter_draft |-> [used_fallback |-> FALSE],
                    chapter_review |-> [score |-> Get(review, "score", -1),
                                        effective_should_revise |->
                                            Get(review, "effective_should_revise", FALSE),
                                        used_fallback |-> FALSE],
                    chapter_persist |-> [revision_count |-> k - 1],
                    run_chapter |-> [revision_count |-> k - 1]]]

\* C11: whichever telemetry writes fail (none, some or all of them), execute does not raise
\* because of it and a chapter run makes the same collaborator calls and returns the same
\* progress, timings and output: one call each to context, plan and persist, as many reviews
\* as drafts, and the progress and timings that depend on the number of drafts only.
C11_TelemetryFailureHarmless ==
    pc = "returned" /\ ChapterRun /\ env = "telemetry"
        => /\ calls = [context |-> 1, plan |-> 1, draft |-> calls.draft, review |-> calls.draft,
                       persist |-> 1, toc |-> 0, refine_toc |-> 0, export |-> 0,
                       profile_assistant |-> 0]
           /\ OutputProgress = ProgressAfter(calls.draft, OutputReview)
           /\ Get(Get(result, "timings_ms", EmptyDict), "nodes", EmptyDict)
                = [n \in ChapterNodes \cup {"run_chapter"} |-> 1]
           /\ Get(result, "status", "") = "success"
           /\ Get(result, "fallback_stages", <<"?">>) = <<>>
           /\ exc = NoError

\* a chapter run returned after two drafts although not one telemetry write went through
C11_Witness ==
    /\ pc = "returned"
    /\ ChapterRun
    /\ env = "telemetry"
    /\ calls.draft = 2
    /\ DOMAIN run.output_payload = {}
    /\ OutputProgress = ProgressAfter(2, OutputReview)

InvalidMode == ModeLower(ModeStrip(run.mode)) \notin RunModes

\* C12: with a mode other than toc, refine_toc, chapter, export, profile_assistant execute
\* raises the mode error before any side effect: no node is started, nothing is written to
\* the run's telemetry, no chapter is stored and no collaborator is called.
C12_InvalidModeNoSideEffect ==
    InvalidMode
        => /\ calls = NoCalls
           /\ DOMAIN run.output_payload = {} /\ DOMAIN run.timings_json = {}
           /\ chapters = EmptyDict
           /\ cstate = EmptyDict /\ started = EmptyDict /\ result = EmptyDict
           /\ last_node = ""
           /\ pc \in {"queued", "not_found", "execute", "raised", "done"}
           /\ pc \in {"raised", "done"} => exc = ModeError
           /\ pc = "raised" => Get(Get(state, "progress", EmptyDict), "node_status", <<"?">>) = EmptyDict

\* execute has raised on the mode "summary"
C12_Witness ==
    /\ pc = "raised"
    /\ run.mode = "summary"
    /\ exc = ModeError
    /\ calls = NoCalls
    /\ DOMAIN run.output_payload = {}

RequestedMode == ModeLower(ModeStrip(run.mode))

SingleShotModes == {"toc", "refine_toc", "export", "profile_assistant"}

\* C13: in a run of mode m in {toc, refine_toc, export, profile_assistant} the handler of m is
\* called exactly once and no other handler or chapter collaborator at all; the returned
\* output carries fallback_stages and used_fallback, its progress has completed_nodes =
\* [run_<m>] with that node "completed", and its timings have the entry of run_<m>.
C13_SingleShotMode ==
    RequestedMode \in SingleShotModes
        => /\ \A h \in DOMAIN calls \ {RequestedMode} : calls[h] = 0
           /\ calls[RequestedMode] <= 1
           /\ pc \in {"finish", "returned", "raised", "done"} => calls[RequestedMode] = 1
           /\ pc = "returned"
                => /\ {"fallback_stages", "used_fallback"} \subseteq DOMAIN result
                   /\ Get(OutputProgress, "completed_nodes", <<>>) = <<NodeOf(RequestedMode)>>
                   /\ Get(OutputProgress, "node_status", EmptyDict)
                        = [n \in {NodeOf(RequestedMode)} |-> "completed"]
                   /\ NodeOf(RequestedMode)
                        \in DOMAIN Get(Get(result, "timings_ms", EmptyDict), "nodes", EmptyDict)

\* a refine_toc run returned after its one handler call, which fell back
C13_Witness ==
    /\ pc = "returned"
    /\ RequestedMode = "refine_toc"
    /\ calls = [NoCalls EXCEPT !["refine_toc"] = 1]
    /\ Get(result, "fallback_stages", <<>>) = <<"refine_toc">>
    /\ Get(OutputProgress, "completed_nodes", <<>>) = <<"run_refine_toc">>

\* the subgraph ended normally on an empty result of the persistence collaborator
EmptyPersistResult ==
    /\ ChapterRun
    /\ last_node = "chapter_persist"
    /\ pc \notin {"chapter_persist", "chapter_raise"}
    /\ exc \notin {ProviderError, StorageError}
    /\ "output" \in DOMAIN cstate
    /\ DOMAIN cstate["output"] \subseteq {"fallback_stages", "used_fallback"}

\* C14: when the chapter subgraph ends without an exception on a missing or empty structured
\* output (the persistence collaborator returned an empty result), the router raises the
\* invalid-output error and stores run_chapter as failed; it returns no output.
C14_EmptyOutputFatal ==
    EmptyPersistResult
        => /\ pc \in {"chapter_exit", "raised", "done"}
           /\ result = EmptyDict
           /\ pc \in {"raised", "done"}
                => /\ exc = InvalidOutputError
                   /\ Get(PersistedStatus, "run_chapter", "") = "failed"

\* the status changes execute_agent_run may make, each with the outcome of execute it follows
StatusStep ==
    \/ run.status = "queued" /\ run'.status = "running" /\ pc = "queued"
    \/ run.status = "running" /\ run'.status = "completed" /\ pc = "returned" /\ exc = NoError
    \/ run.status = "running" /\ run'.status = "failed" /\ pc = "raised" /\ exc # NoError

\* the record of a run the task has finished
FinishedRecord ==
    pc = "done"
        => /\ run.status \in {"completed", "failed"}
           /\ run.status = "completed"
                => /\ exc = NoError
                   /\ "progress" \in DOMAIN run.output_payload
                   /\ NodeOf(RequestedMode) \in DOMAIN Get(run.timings_json, "nodes", EmptyDict)
           /\ run.status = "failed" => exc # NoError /\ run.error_message # NoError

\* C15: execute_agent_run takes a run from queued to running and then to completed when
\* execute returns, or to failed when execute raises, and makes no other status change; the
\* record of a completed run has output_payload.progress and the top-level node's entry in
\* timings_json.nodes, and no run in which a node raised is recorded as completed.
C15_RunLifecycle ==
    /\ [](run_exists => FinishedRecord)
    /\ [][run'.status # run.status => StatusStep]_vars

\* a toc run recorded as completed with its progress and the timing of run_toc
C15_Witness ==
    /\ pc = "done"
    /\ RequestedMode = "toc" /\ run.status = "completed"
    /\ "progress" \in DOMAIN run.output_payload
    /\ "run_toc" \in DOMAIN Get(run.timings_json, "nodes", EmptyDict)

\* the state execute builds for the top-level graph
FreshState ==
    [run_id |-> run.id, mode |-> ModeStrip(run.mode), inputs |-> run.input_payload,
     fallback_stages |-> <<>>,
     progress |-> [current_node |-> "", node_status |-> EmptyDict,
                   completed_nodes |-> <<>>, revision_count |-> 0],
     node_timings |-> EmptyDict]

\* the start mark of run_chapter on an empty progress record
RouterStartMark ==
    [current_node |-> "run_chapter", node_status |-> [n \in {"run_chapter"} |-> "running"],
     completed_nodes |-> <<>>, revision_count |-> 0]

\* the chapter subgraph is about to run its first node
SubgraphStarts == pc = "chapter_retrieve_context"

\* C16 as stated: every execution of a run, a re-execution included, starts the chapter
\* subgraph at RETRIEVE_CONTEXT with revision_count = 0, no fallback stage, an empty progress
\* record and no node timing.
C16_AsStated ==
    SubgraphStarts
        => /\ Get(cstate, "revision_count", -1) = 0
           /\ Get(cstate, "fallback_stages", <<"?">>) = <<>>
           /\ Get(cstate, "node_timings", cstate) = EmptyDict
           /\ Get(cstate, "progress", EmptyDict) = FreshState.progress

\* C16: every execution of a run, a re-execution after a failure or a success included,
\* starts from the state execute builds (no fallback stage, the empty progress record, no node
\* timing) and starts the chapter subgraph at RETRIEVE_CONTEXT with revision_count = 0, no
\* fallback stage, no node timing and a progress record that holds the start mark of
\* run_chapter and nothing else; no key of an earlier attempt's state is left.
C16_FreshAttempt ==
    /\ pc \in {"run_chapter", "run_workflow"} => state = FreshState
    /\ SubgraphStarts
        => cstate = [run_id |-> run.id, inputs |-> run.input_payload, revision_count |-> 0,
                     max_revisions |-> max_revisions, fallback_stages |-> <<>>,
                     progress |-> RouterStartMark, node_timings |-> EmptyDict]

\* a second attempt enters the subgraph after a first attempt that revised a draft and failed
C16_Witness ==
    /\ SubgraphStarts
    /\ attempt = 2
    /\ run.status = "running"
    /\ run.error_message = NoError
    /\ Get(Get(run.output_payload, "progress", EmptyDict), "revision_count", 0) > 0
    /\ Get(cstate, "revision_count", -1) = 0

\* the stored rows of chapter number n
StoredFor(rows, n) == {rows[i] : i \in {j \in 1..Len(rows) : rows[j].number = n}}

\* what persisting the final draft of the subgraph state into an empty table stores
PersistedOnce ==
    PersistChapterResult(<<>>, Get(cstate, "outline", EmptyDict), Get(cstate, "chapter_number", 0),
                         Get(cstate, "target", EmptyDict), Get(cstate, "chapter_draft", EmptyDict),
                         CombinedMetadata(cstate), Get(cstate, "chapter_next_steps", <<>>)).rows

\* a step in which PERSIST stored the chapter
PersistStep == pc = "chapter_persist" /\ pc' = "chapter_exit"

\* C17: after any sequence of PERSIST executions the project has at most one stored chapter
\* per chapter number, and a PERSIST leaves for its chapter number exactly the row that
\* persisting the same data once into an empty table stores, whatever was stored before: it
\* adds no row when the number is stored already and leaves the other rows alone.
C17_PersistIdempotent ==
    /\ [](\A i, j \in 1..Len(chapters) : chapters[i].number = chapters[j].number => i = j)
    /\ [][PersistStep
            => LET n == Get(cstate, "chapter_number", 0)
               IN  /\ StoredFor(chapters', n) = StoredFor(PersistedOnce, n)
                   /\ StoredFor(chapters, n) # {} => Len(chapters') = Len(chapters)
                   /\ \A m \in 1..(MaxOutline + 1) \ {n} : StoredFor(chapters', m) = StoredFor(chapters, m)
                   /\ StoredFor(chapters, n) = StoredFor(PersistedOnce, n) => chapters' = chapters]_vars

\* the second attempt of a run has persisted the chapter its first attempt had stored
C17_Witness ==
    /\ attempt = 2
    /\ pc = "chapter_exit"
    /\ last_node = "chapter_persist"
    /\ Get(run.output_payload, "status", "") = "success"
    /\ calls["persist"] = 1
    /\ Len(chapters) = 1

\* PERSIST is about to run on a final draft whose content is empty after trimming
EmptyFinalDraft == ChapterRun /\ pc = "chapter_persist" /\ Len(DraftContent) = 0

\* C18: when the final draft's content is empty after trimming, PERSIST raises the
\* empty-content error, stores and overwrites no chapter and marks chapter_persist failed in
\* the run's stored progress as it raises; the run returns no output and is recorded as
\* failed; and PERSIST is reached only after max_revisions + 1 drafts and as many reviews.
C18_EmptyDraftNotPersisted ==
    /\ [](EmptyFinalDraft
            => calls["draft"] = max_revisions + 1 /\ calls["review"] = max_revisions + 1)
    /\ [][EmptyFinalDraft
            => /\ pc' = "chapter_raise"
               /\ exc' = EmptyContentError
               /\ chapters' = chapters
               /\ run_exists /\ WritesSucceed
                    => Get(Get(Get(run'.output_payload, "progress", EmptyDict), "node_status", EmptyDict),
                           "chapter_persist", "") = "failed"]_vars
    /\ [](ChapterRun /\ exc = EmptyContentError
            => /\ pc \in {"chapter_raise", "raised", "done"}
               /\ result = EmptyDict
               /\ chapters = <<>>
               /\ pc = "done" => run.status = "failed" /\ DOMAIN run.output_payload \subseteq {"progress"})

\* PERSIST has raised on a whitespace-only third draft and marked itself failed
C18_Witness ==
    /\ pc = "chapter_raise"
    /\ exc = EmptyContentError
    /\ Len(DraftContent) = 0
    /\ calls = [NoCalls EXCEPT !["context"] = 1, !["plan"] = 1, !["draft"] = 3, !["review"] = 3,
                               !["persist"] = 1]
    /\ Get(PersistedStatus, "chapter_persist", "") = "failed"

\* the project's profile asks for the second person
SecondPersonProfile == Get(ProjectProfile(project), "pointOfView", "") = "Second Person"

\* the model review of the final draft gave 95 and should_revise = false
ModelReviewPassed == Get(LastReview, "score", 0) = 95 /\ ~Get(LastReview, "should_revise", TRUE)

\* C19: with pointOfView "Second Person", drafts that have a '##' heading and the minimum
\* word count but no second-person pronoun, and a model review of 95 with should_revise =
\* false, a returned run has called draft and review 3 times each and its final review has
\* profile_compliance_fail, guardrail_fail and effective_should_revise set, with a
\* profile_compliance entry and profile_compliance_issues that name the second-person voice.
C19_ProfileComplianceRevises ==
    (/\ ChapterRun /\ SecondPersonProfile /\ pc = "returned"
     /\ HasSectionHeading(DraftContent)
     /\ TokenCount(DraftContent) >= MinimumWordCountForProject(project)
     /\ ModelReviewPassed)
        => /\ calls["draft"] = max_revisions + 1
           /\ calls["review"] = max_revisions + 1
           /\ Get(OutputReview, "profile_compliance_fail", FALSE)
           /\ Get(OutputReview, "guardrail_fail", FALSE)
           /\ Get(OutputReview, "effective_should_revise", FALSE)
           /\ {"profile_compliance", "profile_compliance_issues"} \subseteq DOMAIN OutputReview
           /\ Len(Get(OutputReview, "profile_compliance_issues", <<>>)) > 0

\* what _review_guardrails returned to the review node that has just run
GuardrailsOfReview ==
    ReviewGuardrails(project, Get(Get(cstate, "chapter_draft", EmptyDict), "content", <<>>))

\* C20: the guardrail evaluator takes the target chapter spec and returns, with the issues,
\* the word count and the minimum word count, a guidance record whose bullet_count is the
\* number of the target's bullets and whose target exceeds the minimum word count; for a
\* "Short" profile, a target of 6 bullets and about 2100 words with a '##' heading it reports
\* neither a "below minimum" nor a "far above expected range" issue.
C20_GuardrailGuidance ==
    ChapterRun /\ AfterReview
        => /\ "guidance" \in DOMAIN GuardrailsOfReview
           /\ GuardrailsOfReview.guidance.bullet_count
                = Len(Get(Get(cstate, "target", EmptyDict), "bullet_points", <<>>))
           /\ GuardrailsOfReview.minimum_word_count < GuardrailsOfReview.guidance.target
           /\ (/\ MinimumWordCountForProject(project) = MinWordsShort
               /\ Len(Get(Get(cstate, "target", EmptyDict), "bullet_points", <<>>)) = 6
               /\ TokenCount(DraftContent) > 2000
               /\ HasSectionHeading(DraftContent))
                => \A i \in 1..Len(GuardrailsOfReview.issues) :
                      GuardrailsOfReview.issues[i].text
                          \notin {"Chapter word count {a} is below minimum {b}.",
                                  "Chapter word count {a} is far above expected range."}

----------------------------------------------------------------------------
(* Progress of a chapter run, the revision counter, the draft's inputs *)

\* execute has returned the output of a chapter run that persisted its chapter
SuccessfulChapterRun ==
    ChapterRun /\ pc \in {"returned", "done"} /\ Get(result, "status", "") = "success"

NoDuplicates(seq) == \A i, j \in 1..Len(seq) : seq[i] = seq[j] => i = j

\* C21: the progress a successful chapter run returns has completed_nodes without duplicates
\* and equal to [chapter_retrieve_context, chapter_plan, chapter_draft, chapter_review,
\* chapter_persist, run_chapter], in that order, after one, two or three drafts.
C21_CompletedNodesOrdered ==
    SuccessfulChapterRun
        => /\ NoDuplicates(Get(OutputProgress, "completed_nodes", <<>>))
           /\ Get(OutputProgress, "completed_nodes", <<>>)
                = <<"chapter_retrieve_context", "chapter_plan", "chapter_draft", "chapter_review",
                    "chapter_persist", "run_chapter">>

\* a chapter run returned after three drafts and three reviews
C21_Witness ==
    /\ SuccessfulChapterRun
    /\ calls["draft"] = 3 /\ calls["review"] = 3
    /\ Len(Get(OutputProgress, "completed_nodes", <<>>)) = 6

\* a step in which DRAFT returned a draft
DraftStep == pc = "chapter_draft" /\ pc' = "chapter_review"

\* revision_count of the subgraph state
RevisionCount == Get(cstate, "revision_count", 0)

\* C22: a DRAFT that returns a draft increases revision_count by exactly 1 when the critique
\* it passes to the draft call is non-empty after trimming and leaves it unchanged otherwise;
\* the first DRAFT of a run passes an empty critique and leaves revision_count at 0.
C22_DraftIncrement ==
    [][DraftStep
        => /\ DraftCritique(cstate) # "" => RevisionCount' = RevisionCount + 1
           /\ DraftCritique(cstate) = "" => RevisionCount' = RevisionCount
           /\ calls["draft"] = 0 => DraftCritique(cstate) = "" /\ RevisionCount' = 0
           /\ Get(Get(cstate', "progress", EmptyDict), "revision_count", -1) = RevisionCount']_vars

\* the second draft has run on a critique and counted one revision
C22_Witness ==
    /\ pc = "chapter_review"
    /\ calls["draft"] = 2
    /\ DraftCritique(cstate) # ""
    /\ RevisionCount = 1

\* a step of a chapter-subgraph node other than DRAFT, whether it returns or raises
OtherNodeStep ==
    pc \in {"chapter_retrieve_context", "chapter_plan", "chapter_review", "chapter_persist"}

\* C23: RETRIEVE_CONTEXT, PLAN, REVIEW and PERSIST leave the state's revision_count as it
\* was, so that only DRAFT changes it, and a REVIEW that returns records in the progress the
\* revision_count it received.
C23_OnlyDraftCounts ==
    [][/\ OtherNodeStep => RevisionCount' = RevisionCount
       /\ RevisionCount' # RevisionCount /\ pc \in ChapterNodes => pc = "chapter_draft"
       /\ pc = "chapter_review" /\ pc' \in {"chapter_draft", "chapter_persist"}
            => Get(Get(cstate', "progress", EmptyDict), "revision_count", -1) = RevisionCount]_vars

\* REVIEW has returned after one revision and recorded revision_count 1
C23_Witness ==
    /\ AfterReview
    /\ calls["review"] = 2
    /\ RevisionCount = 1
    /\ Get(Get(cstate, "progress", EmptyDict), "revision_count", -1) = 1

\* DRAFT is about to run because REVIEW sent the run back to it
RevisionDraftNext == pc = "chapter_draft" /\ last_node = "chapter_review"

\* C24: a DRAFT reached through the edge from REVIEW finds a critique that is non-empty after
\* trimming: the model's own, or the generic one REVIEW stored when the model's was empty;
\* so every revision draft that returns adds 1 to revision_count.
C24_RevisionDraftHasCritique ==
    /\ [](RevisionDraftNext
            => /\ DraftCritique(cstate) # ""
               /\ Get(LastReview, "critique", "") # ""
               /\ Get(LastReview, "effective_should_revise", FALSE))
    /\ [][RevisionDraftNext /\ DraftStep => RevisionCount' = RevisionCount + 1]_vars

\* the model asked for a revision without a critique and REVIEW stored the generic one
C24_Witness ==
    /\ RevisionDraftNext
    /\ Get(LastReview, "critique", "") = GenericCritique
    /\ Get(LastReview, "should_revise", FALSE)

\* a step in which DRAFT called llm.draft_or_revise_chapter, whatever the call did
DraftCallStep == pc = "chapter_draft" /\ pc' # pc

StoredDraft == Get(Get(cstate, "chapter_draft", EmptyDict), "content", <<>>)

StoredPlan == Get(cstate, "chapter_plan", EmptyDict)

\* between a DRAFT and the next one only REVIEW runs: it keeps the stored draft and plan, and
\* DRAFT keeps the plan of the one PLAN execution
DraftInputsKept ==
    /\ pc = "chapter_review" => StoredDraft' = StoredDraft /\ StoredPlan' = StoredPlan
    /\ pc = "chapter_draft" => StoredPlan' = StoredPlan /\ calls["plan"] = 1

\* C25 as stated: the k-th draft call (k >= 2) receives the critique the (k-1)-th REVIEW
\* stored and, as previous_draft, the content the (k-1)-th DRAFT produced; every draft call
\* receives the plan of the single PLAN; the first receives an empty critique and an empty
\* previous_draft.
C25_AsStated ==
    [][/\ DraftInputsKept
       /\ DraftCallStep
            => /\ draft_call'.chapter_plan = StoredPlan
               /\ calls["draft"] = 0 => draft_call'.critique = "" /\ draft_call'.previous_draft = <<>>
               /\ calls["draft"] >= 1
                    => /\ last_node = "chapter_review"
                       /\ draft_call'.critique = Get(LastReview, "critique", "")
                       /\ draft_call'.previous_draft = StoredDraft]_vars

\* C25: the k-th draft call (k >= 2) receives the critique the (k-1)-th REVIEW stored and, as
\* previous_draft, the content the (k-1)-th DRAFT produced with its leading and trailing
\* whitespace removed; every draft call receives the plan of the single PLAN; the first
\* receives an empty critique and an empty previous_draft.
C25_DraftInputs ==
    [][/\ DraftInputsKept
       /\ DraftCallStep
            => /\ draft_call'.chapter_plan = StoredPlan
               /\ calls["draft"] = 0 => draft_call'.critique = "" /\ draft_call'.previous_draft = <<>>
               /\ calls["draft"] >= 1
                    => /\ last_node = "chapter_review"
                       /\ draft_call'.critique = Get(LastReview, "critique", "")
                       /\ draft_call'.previous_draft = Strip(StoredDraft)]_vars

\* the second draft call got the first review's critique and the first draft, trimmed
C25_Witness ==
    /\ pc = "chapter_review"
    /\ calls["draft"] = 2
    /\ draft_call.critique = "Add stronger examples."
    /\ draft_call.previous_draft = Strip(GoodContent)
    /\ draft_call.previous_draft # GoodContent
    /\ draft_call.chapter_plan = StoredPlan

----------------------------------------------------------------------------
(* Node failures, the tracker's snapshots and writes *)

\* output.progress of the run record
PersistedProgress == Get(run.output_payload, "progress", EmptyDict)

\* a step in which a node's collaborator call raised: a chapter-subgraph node, or the node of
\* a single-shot mode
NodeRaisedStep ==
    \/ pc \in ChapterNodes /\ pc' = "chapter_raise"
    \/ pc = "run_workflow" /\ pc' = "raised"

\* the node that ran in the step
SteppedNode == IF pc = "run_workflow" THEN NodeOf(RequestedMode) ELSE pc

\* C26: when a node's collaborator call raises, the snapshot the node writes to the run
\* record has node_status[node] = "failed" and as last_error the first 500 characters of the
\* error message (all of it when shorter), and the node raises that same error; after it no
\* chapter-subgraph node starts and no collaborator is called, and execute raises the error
\* to its caller.
C26_NodeErrorReraised ==
    /\ [][NodeRaisedStep
            => /\ exc' # NoError
               /\ calls' # calls
               /\ run_exists /\ WritesSucceed
                    => /\ Get(Get(PersistedProgress', "node_status", EmptyDict), SteppedNode, "") = "failed"
                       /\ Get(PersistedProgress', "current_node", "") = SteppedNode
                       /\ Get(PersistedProgress', "last_error", NoError).msg = exc'.msg
                       /\ Get(PersistedProgress', "last_error", NoError).len
                            = Min(exc'.len, LastErrorLimit)]_vars
    /\ [][(pc = "chapter_raise" \/ pc = "raised")
            => /\ exc' = exc
               /\ calls' = calls
               /\ cstate' = cstate
               /\ pc' = (IF pc = "chapter_raise" THEN "raised" ELSE "done")]_vars
    /\ [](pc = "raised" => exc # NoError /\ result = EmptyDict)

\* the draft call raised a 600-character error: chapter_draft is stored as failed with the
\* first 500 characters
C26_Witness ==
    /\ pc = "chapter_raise"
    /\ last_node = "chapter_draft"
    /\ exc = ProviderError
    /\ Get(Get(PersistedProgress, "node_status", EmptyDict), "chapter_draft", "") = "failed"
    /\ Get(PersistedProgress, "last_error", NoError) = Err("generation provider failed", 500)

\* C27: _mark_node_start, _mark_node_end and _mark_node_error leave the progress and node
\* timings snapshot they were given as it was: after the call every field of the caller's
\* snapshot (current_node, node_status, completed_nodes, revision_count, node_meta,
\* last_error, the timings) has the value it had before, the changes being in the returned
\* copy only.
C27_SnapshotsUntouched == handed.now = handed.given

\* a step of a node: the only steps that call the tracker
TrackerStep == pc \in {"run_workflow", "run_chapter", "chapter_raise", "chapter_exit"} \cup ChapterNodes

\* the dict d without the key k
Without(d, k) == [x \in DOMAIN d \ {k} |-> d[x]]

\* the rows before and after differ in output_payload.progress and timings_json.nodes at most
OnlyTelemetryDiffers(before, after) ==
    /\ [after EXCEPT !.output_payload = before.output_payload,
                     !.timings_json = before.timings_json] = before
    /\ Without(after.output_payload, "progress") = Without(before.output_payload, "progress")
    /\ Without(after.timings_json, "nodes") = Without(before.timings_json, "nodes")

\* C28: the telemetry writes of a node change nothing but output_payload.progress and
\* timings_json.nodes of the record of the run they are made for: its status, error message
\* and its other output and timings keys stay, and so does the record of every other run.
C28_TelemetryWriteFrame ==
    /\ [][TrackerStep => OnlyTelemetryDiffers(run, run')]_vars
    /\ [][other_run' = other_run]_vars

\* the second attempt of a completed run has written its progress: the output and the total
\* time the first attempt stored are still in the record
C28_Witness ==
    /\ attempt = 2
    /\ pc = "chapter_plan"
    /\ Get(run.output_payload, "status", "") = "success"
    /\ "chapter" \in DOMAIN run.output_payload
    /\ "total_ms" \in DOMAIN run.timings_json
    /\ Get(PersistedProgress, "current_node", "") = "chapter_retrieve_context"
    /\ other_run = OtherRun

\* timings_json.nodes of the run record
PersistedTimings == Get(run.timings_json, "nodes", EmptyDict)

\* the node timings of the subgraph state
SubgraphTimings == Get(cstate, "node_timings", EmptyDict)

\* every entry of the timings before is in the timings after, with its value
TimingsKept(before, after) == \A n \in DOMAIN before : n \in DOMAIN after /\ after[n] = before[n]

\* C29: within a run an entry <node>_ms, once recorded in the node timings of the state or in
\* timings_json.nodes of the run record, is neither removed nor changed by a later node
\* execution, the repeated chapter_draft and chapter_review of the revision loop included.
C29_TimingsAppendOnly ==
    [][/\ TimingsKept(PersistedTimings, PersistedTimings')
       /\ pc \in ChapterNodes => TimingsKept(SubgraphTimings, SubgraphTimings')]_vars

\* the nodes the revision loop executes again
LoopNodes == {"chapter_draft", "chapter_review"}

\* every entry of the timings before is in the timings after, and only an entry of a node
\* that the revision loop executes again has another value
TimingsKeptOrRetimed(before, after) ==
    \A n \in DOMAIN before : n \in DOMAIN after /\ (after[n] # before[n] => n \in LoopNodes)

\* C29 (amended): within a run no entry of the node timings or of timings_json.nodes is
\* removed, and an entry changes its value only when its own node is executed again: the
\* repeated chapter_draft and chapter_review overwrite their entries with the latest duration.
C29_TimingsKept ==
    [][/\ TimingsKeptOrRetimed(PersistedTimings, PersistedTimings')
       /\ pc \in ChapterNodes => TimingsKeptOrRetimed(SubgraphTimings, SubgraphTimings')]_vars

\* a revision draft has overwritten the duration recorded for the first draft, beside the
\* entries of the nodes that ran once
C29_Witness ==
    /\ pc = "chapter_review"
    /\ cstate.revision_count = 1
    /\ "chapter_draft" \in DOMAIN PersistedTimings
    /\ PersistedTimings["chapter_draft"] = 2
    /\ PersistedTimings["chapter_plan"] = 1
    /\ SubgraphTimings["chapter_draft"] = 2

\* the chapter-subgraph nodes a node_status records as running
SubgraphRunning(statuses) == {n \in DOMAIN statuses \cap ChapterNodes : statuses[n] = "running"}

\* each start write of a subgraph node in ws comes when no other subgraph node is left started
RECURSIVE StartsInTurn(_, _)
StartsInTurn(open, ws) ==
    IF ws = <<>> THEN TRUE
    ELSE /\ (Head(ws).status = "running" /\ Head(ws).node \in ChapterNodes)
               => open \in {"", Head(ws).node}
         /\ StartsInTurn(Unclosed(open, <<Head(ws)>>), Tail(ws))

\* C30: in the telemetry writes of a run, the start write of a chapter-subgraph node is followed
\* by the end or error write of that node before the start write of any other subgraph node,
\* and every persisted snapshot has at most one subgraph node with status "running".
C30_WritesBracketed ==
    /\ StartsInTurn(writes.open, writes.log)
    /\ Unclosed(writes.open, writes.log) = ""
    /\ \A i \in DOMAIN writes.log : Cardinality(SubgraphRunning(writes.log[i].stored)) <= 1
    /\ Cardinality(SubgraphRunning(Get(PersistedProgress, "node_status", EmptyDict))) <= 1

\* the revision draft has made its start write, persisted with chapter_draft alone running
\* beside the completed chapter_review, and then its end write
C30_Witness ==
    /\ pc = "chapter_review"
    /\ cstate.revision_count = 1
    /\ Len(writes.log) = 2
    /\ writes.log[1].node = "chapter_draft" /\ writes.log[1].status = "running"
    /\ writes.log[2].node = "chapter_draft" /\ writes.log[2].status = "completed"
    /\ SubgraphRunning(writes.log[1].stored) = {"chapter_draft"}
    /\ writes.log[1].stored["chapter_review"] = "completed"

----------------------------------------------------------------------------
(* The fallback aggregator as a function of its two arguments *)

\* the largest list of stage names handed to the aggregator
MaxStages == 2

\* stage names as a caller can hand them over: plain, padded with blanks, blank
StageNames == {"chapter_plan", "toc", " toc ", "  "}

\* the lists of at most n of the names
ListsOf(names, n) == UNION {[1..k -> names] : k \in 0..n}

\* existing: duplicate-free lists of non-blank names
ExistingInputs ==
    {e \in ListsOf(StageNames, MaxStages) :
        NoDuplicates(e) /\ \A i \in 1..Len(e) : StripName(e[i]) # ""}

\* payloads of a stage: fallback_stages, used_fallback, fallback_stage
MergePayloads ==
    {[fallback_stages |-> l, used_fallback |-> u, fallback_stage |-> n] :
        l \in ListsOf(StageNames, MaxStages), u \in BOOLEAN, n \in StageNames \cup {""}}

\* a project with no profile
PlainProject == [outline_chapters |-> 1, metadata_json |-> EmptyDict]

\* a call that holds its arguments in state and has made no other step
CallInit(at, arguments, proj) ==
    /\ pc = at
    /\ state = arguments
    /\ result = EmptyDict
    /\ env = "fallback"
    /\ run_exists = TRUE
    /\ run = Merge(InitialRow, [id |-> "R1", mode |-> "chapter", input_payload |-> EmptyDict])
    /\ project = proj
    /\ chapters = <<>>
    /\ cstate = EmptyDict
    /\ started = EmptyDict
    /\ exc = NoError
    /\ calls = NoCalls
    /\ reported = <<>>
    /\ last_node = ""
    /\ attempt = 1
    /\ draft_call = NoDraftCall
    /\ handed = NothingHanded
    /\ other_run = OtherRun
    /\ writes = NoWrites

MergeInit ==
    \E e \in ExistingInputs, p \in MergePayloads : CallInit("merge", [existing |-> e, payload |-> p], PlainProject)

\* stages = self._merge_fallback_stages(existing, payload)
MergeCall ==
    /\ pc = "merge"
    /\ result' = [stages |-> MergeFallbackStages(state.existing, state.payload)]
    /\ pc' = "merged"
    /\ UNCHANGED <<writes, other_run, handed, draft_call, attempt, env, run, run_exists, project,
                   chapters, state, cstate, started, exc, calls, reported, last_node>>

\* self._merge_fallback_stages(stages, payload): the same payload merged into the result
MergeAgain ==
    /\ pc = "merged"
    /\ result' = Put(result, "again", MergeFallbackStages(result.stages, state.payload))
    /\ pc' = "merged_again"
    /\ UNCHANGED <<writes, other_run, handed, draft_call, attempt, env, run, run_exists, project,
                   chapters, state, cstate, started, exc, calls, reported, last_node>>

MergeNext == MergeCall \/ MergeAgain

MergeSpec == MergeInit /\ [][MergeNext]_vars

\* the names of a list
Names(l) == {l[i] : i \in 1..Len(l)}

\* where a name first occurs in a list once the names are trimmed
FirstAt(l, n) == CHOOSE i \in 1..Len(l) : StripName(l[i]) = n /\ \A j \in 1..(i - 1) : StripName(l[j]) # n

\* l lists exactly the names of positions ok(i) of from, trimmed, each once, by first occurrence
ListsInOrder(l, from, skip) ==
    /\ NoDuplicates(l)
    /\ Names(l) = {StripName(from[i]) : i \in 1..Len(from)} \ (skip \cup {""})
    /\ \A i, j \in 1..Len(l) : i < j => FirstAt(from, l[i]) < FirstAt(from, l[j])

\* what merge(e, p) = m has to be when the names of p count as written (trimmed = FALSE)
\* or as they read once trimmed (trimmed = TRUE)
MergedAsDescribed(e, p, m, trimmed) ==
    LET stage == IF trimmed THEN StripName(p.fallback_stage) ELSE p.fallback_stage
        rest  == SubSeq(m, Len(e) + 1, Len(m))
        last  == p.used_fallback /\ stage # ""
                   /\ stage \notin Names(e) \cup {StripName(x) : x \in Names(p.fallback_stages)}
        new   == IF last THEN SubSeq(rest, 1, Len(rest) - 1) ELSE rest
    IN  /\ Len(m) >= Len(e)
        /\ SubSeq(m, 1, Len(e)) = e
        /\ NoDuplicates(m)
        /\ last => (Len(rest) > 0 /\ rest[Len(rest)] = stage)
        /\ ListsInOrder(new, p.fallback_stages, Names(e))

\* C31 as stated: for a duplicate-free list e of non-blank names and any payload p, merge(e, p)
\* has e as a prefix, has no duplicates, lists the new names of p.fallback_stages in order and
\* then p.fallback_stage when used_fallback holds and the name is non-empty and new, and
\* merging p again changes nothing.
C31_AsStated ==
    /\ pc \in {"merged", "merged_again"}
          => MergedAsDescribed(state.existing, state.payload, result.stages, FALSE)
    /\ pc = "merged_again" => result.again = result.stages

\* existing has no name with blanks around it, as every list the aggregator returns
Trimmed(e) == \A i \in 1..Len(e) : StripName(e[i]) = e[i]

\* C31 (amended): for a duplicate-free list e of non-blank names without surrounding blanks
\* and any payload p whose names are taken trimmed, merge(e, p) has e as a prefix, has no
\* duplicates, lists the new non-blank names of p.fallback_stages in order and then
\* p.fallback_stage when used_fallback holds and the trimmed name is non-empty and new; and for
\* every e, merging p again changes nothing.
C31_MergeOrderedIdempotent ==
    /\ (pc \in {"merged", "merged_again"} /\ Trimmed(state.existing))
          => MergedAsDescribed(state.existing, state.payload, result.stages, TRUE)
    /\ pc = "merged_again" => result.again = result.stages

\* a padded duplicate of an existing name is dropped, a new name and the stage are appended
C31_Witness ==
    /\ pc = "merged_again"
    /\ state.existing = <<"toc">>
    /\ state.payload.fallback_stages = <<" toc ", "chapter_plan">>
    /\ state.payload.used_fallback /\ state.payload.fallback_stage = "  "
    /\ result.stages = <<"toc", "chapter_plan">>
    /\ result.again = result.stages

----------------------------------------------------------------------------
(* The guardrail evaluator as a function of the project and the content *)

\* chapterLength preferences: "Short", " medium ", "Long", "Solo" (no tier)
ShortPreference == <<"S", "h", "o", "r", "t">>

MediumPreference == <<" ", "m", "e", "d", "i", "u", "m", " ">>

LongPreference == <<"L", "o", "n", "g">>

OtherPreference == <<"S", "o", "l", "o">>

Preferences == {ShortPreference, MediumPreference, LongPreference, OtherPreference}

\* metadata_json: no profile; user_concept.profile with or without a preference; the legacy
\* profile key alone; a user_concept that is no dict beside a legacy profile
GuardrailProfiles ==
    {EmptyDict, [user_concept |-> DictVal([profile |-> DictVal(EmptyDict)])]}
    \cup {[user_concept |-> DictVal([profile |-> DictVal([chapterLength |-> l])])] : l \in Preferences}
    \cup {[profile |-> DictVal([chapterLength |-> l])] : l \in Preferences}
    \cup {[user_concept |-> NonDict, profile |-> DictVal([chapterLength |-> LongPreference])]}

\* contents around the three conditions: empty, blank, a trailing "##", one word short of
\* the short minimum and exactly at it, and the chapter texts of the runs
GuardrailContents ==
    Contents \cup {<<>>, <<W(1300), Sp, H2>>, <<H2, Sp, W(898)>>, <<Sp, H2, Sp, W(899), Sp>>,
                   LongContent}

GuardrailInit ==
    \E meta \in GuardrailProfiles, c \in GuardrailContents :
        CallInit("guardrails", [content |-> c], [outline_chapters |-> 1, metadata_json |-> meta])

\* self._review_guardrails(project, content)
GuardrailCall ==
    /\ pc = "guardrails"
    /\ result' = ReviewGuardrails(project, state.content)
    /\ pc' = "reported"
    /\ UNCHANGED <<writes, other_run, handed, draft_call, attempt, env, run, run_exists, project,
                   chapters, state, cstate, started, exc, calls, reported, last_node>>

GuardrailNext == GuardrailCall

GuardrailSpec == GuardrailInit /\ [][GuardrailNext]_vars

\* the content has nothing but whitespace
IsBlank(c) == \A i \in 1..Len(c) : c[i].kind = "sp"

\* a "##" token with whitespace and more text after it
HasHeadingToken(c) ==
    \E i \in 1..Len(c) : c[i].kind = "h2" /\ \E j \in (i + 2)..Len(c) : c[i + 1].kind = "sp" /\ c[j].kind # "sp"

\* the whitespace-delimited tokens of the content
Tokens(c) == CountFrom(c, 1)

\* the issues whose conditions hold, in the fixed order
IssuesThatHold(c, minimum) ==
    (IF IsBlank(c) THEN <<IssueEmpty>> ELSE <<>>)
    \o (IF ~HasHeadingToken(c) THEN <<IssueNoHeading>> ELSE <<>>)
    \o (IF Tokens(c) < minimum THEN <<IssueBelowMinimum(Tokens(c), minimum)>> ELSE <<>>)

\* C32: the guardrail evaluator never raises and returns as issues exactly the sub-list, in
\* this order, of [content is empty, no '##' section heading, word count below minimum]
\* whose conditions hold, the word count being the number of whitespace-delimited tokens;
\* empty content gets all three.
C32_GuardrailIssues ==
    pc = "reported" =>
        /\ exc = NoError
        /\ result.word_count = Tokens(state.content)
        /\ result.issues = IssuesThatHold(state.content, result.minimum_word_count)
        /\ IsBlank(state.content) =>
               result.issues = <<IssueEmpty, IssueNoHeading,
                                 IssueBelowMinimum(0, result.minimum_word_count)>>

\* a text of 1301 tokens that ends in "##" is reported for the missing heading alone
C32_Witness ==
    /\ pc = "reported"
    /\ state.content = <<W(1300), Sp, H2>>
    /\ project.metadata_json = EmptyDict
    /\ result.issues = <<IssueNoHeading>>

\* the chapterLength preference of the project's profile, as written
PreferenceOf(p) == Get(ProjectProfile(p), "chapterLength", <<>>)

\* C33: the minimum word count of the guardrails is 900 for a short chapter-length
\* preference, 1800 for medium, 3000 for long, and 1200 when the profile has no preference
\* or one that names none of the tiers.
C33_MinimumWordCount ==
    pc = "reported" =>
        result.minimum_word_count =
            CASE PreferenceOf(project) = ShortPreference -> 900
              [] PreferenceOf(project) = MediumPreference -> 1800
              [] PreferenceOf(project) = LongPreference -> 3000
              [] OTHER -> 1200

\* a profile that asks for long chapters: 1303 tokens are below the minimum of 3000
C33_Witness ==
    /\ pc = "reported"
    /\ project.metadata_json = [user_concept |-> DictVal([profile |-> DictVal([chapterLength |-> LongPreference])])]
    /\ state.content = GoodContent
    /\ result.minimum_word_count = 3000
    /\ result.issues = <<IssueBelowMinimum(1303, 3000)>>

----------------------------------------------------------------------------
(* The review result and the transition predicate as functions of the model's review *)

\* the longest list of issues the review model returns
MaxIssues == 2

WeakExamples == Issue("Weak examples.", 0, 0)

\* issues as the review model can return them: plain, padded, blank, and the text of a
\* guardrail issue
IssueInputs == {WeakExamples, Issue(" Weak examples. ", 0, 0), Issue("  ", 0, 0), IssueNoHeading}

\* scores: 79.9, 80.0, 95.0, not a number, 120.0, -5.0
ReviewScores == ScoreInputs \cup {Num(1200), Num(-50)}

\* the review dict of the model's payload, with and without a score
ReviewInputs ==
    {[score |-> sc, should_revise |-> sr, issues |-> l, critique |-> ""] :
        sc \in ReviewScores, sr \in BOOLEAN, l \in ListsOf(IssueInputs, MaxIssues)}
    \cup {[should_revise |-> sr, issues |-> l, critique |-> ""] :
        sr \in BOOLEAN, l \in ListsOf(IssueInputs, MaxIssues)}

\* the draft under review: one that passes the guardrails and one without a heading
ReviewContents == {GoodContent, <<H1, Sp, W(1300)>>}

ReviewInit ==
    \E r \in ReviewInputs, c \in ReviewContents :
        CallInit("review", [content |-> c, review_payload |-> [review |-> r]], PlainProject)

\* lines 433-463 of _chapter_node_review
ReviewCall ==
    /\ pc = "review"
    /\ result' = [review_result |-> ReviewResult(project, Strip(state.content), state.review_payload)]
    /\ pc' = "reviewed"
    /\ UNCHANGED <<writes, other_run, handed, draft_call, attempt, env, run, run_exists, project,
                   chapters, state, cstate, started, exc, calls, reported, last_node>>

\* _chapter_route_review on a state that holds the stored review result
RouteCall ==
    /\ pc = "reviewed"
    /\ \E rc \in 0..max_revisions :
         result' = Merge(result,
                         [revision_count |-> rc,
                          route |-> ChapterRouteReview([review_result |-> result.review_result,
                                                        revision_count |-> rc,
                                                        max_revisions |-> max_revisions])])
    /\ pc' = "routed"
    /\ UNCHANGED <<writes, other_run, handed, draft_call, attempt, env, run, run_exists, project,
                   chapters, state, cstate, started, exc, calls, reported, last_node>>

ReviewNext == ReviewCall \/ RouteCall

ReviewSpec == ReviewInit /\ [][ReviewNext]_vars

\* the texts of a list of issues, trimmed, the blank ones left out
IssueTexts(l) == {StripIssue(l[i]).text : i \in 1..Len(l)} \ {""}

\* C34: every review result the REVIEW node stores has an integer score in 0..100, 0 for a
\* missing or unparsable score, and an issues list that is the deduplicated union of the
\* model's issues and the guardrail issues: no issue string occurs twice in it.
C34_ScoreAndIssues ==
    pc \in {"reviewed", "routed"} =>
        LET given  == state.review_payload.review
            stored == result.review_result
        IN  /\ stored.score \in 0..100
            /\ ("score" \notin DOMAIN given \/ given.score = BadScore) => stored.score = 0
            /\ IssueTexts(stored.issues)
                 = IssueTexts(given.issues) \cup IssueTexts(stored.guardrail_issues)
            /\ NoDuplicates(stored.issues)

\* C35: the revise decision recomputed by the transition predicate from the stored review
\* result equals the stored effective_should_revise, and the route is "revise" exactly when
\* the stored field holds and the revision budget is not used up.
C35_DecisionsAgree ==
    pc = "routed" =>
        LET stored == result.review_result
            recomputed == \/ stored.should_revise
                          \/ Max(0, Min(100, stored.score)) < 80
                          \/ stored.guardrail_fail
        IN  /\ recomputed = stored.effective_should_revise
            /\ (result.route = "revise")
                 <=> (stored.effective_should_revise /\ result.revision_count < max_revisions)
            /\ (result.route = "persist")
                 <=> ~(stored.effective_should_revise /\ result.revision_count < max_revisions)

\* a score of 120 is stored as 100 beside an explicit should_revise: the stored field holds
\* and the route with one revision made is "revise"
C35_Witness ==
    /\ pc = "routed"
    /\ "score" \in DOMAIN state.review_payload.review
    /\ state.review_payload.review.score = Num(1200)
    /\ state.review_payload.review.should_revise
    /\ state.content = GoodContent
    /\ result.review_result.score = 100
    /\ ~result.review_result.guardrail_fail
    /\ result.review_result.effective_should_revise
    /\ result.revision_count = 1
    /\ result.route = "revise"

----------------------------------------------------------------------------
(* Two executions whose telemetry writes interleave.  _persist_run_telemetry reads the
   row, changes the copy it read and saves it: the read and the save are two steps, and
   another execution can take steps between them.  state holds the two executions, run
   and other_run are the rows "R1" and "R2", started holds the row each execution would
   have written had it run alone. *)

Executions == {"A", "B"}

\* the nodes an execution marks, one after the other
RaceNodes == <<"chapter_retrieve_context", "chapter_plan">>

\* Variant of the save that updates every row of the table.
SaveEveryRow(table, read, run_id, progress, node_timings) ==
    Only({[id \in DOMAIN table |->
              [table[id] EXCEPT !.output_payload = saved.output_payload,
                                !.timings_json = saved.timings_json]] :
          saved \in {PersistRunTelemetry(read, TRUE, run_id, progress, node_timings)}})

\* Variant of the save that merges into the row as it is when the save is made.
SaveFreshRow(table, read, run_id, progress, node_timings) ==
    [id \in DOMAIN table |->
        IF id = read.id THEN PersistRunTelemetry(table[id], TRUE, run_id, progress, node_timings)
        ELSE table[id]]

\* lines 636-647 of _persist_run_telemetry on the row read at line 633:
\* run.save(update_fields=["output_payload", "timings_json"]) writes the two fields of the
\* copy over those of the row with the copy's id
SaveTelemetry(table, read, run_id, progress, node_timings) ==
    Only({[id \in DOMAIN table |->
              IF id = read.id
              THEN [table[id] EXCEPT !.output_payload = saved.output_payload,
                                     !.timings_json = saved.timings_json]
              ELSE table[id]] :
          saved \in {PersistRunTelemetry(read, TRUE, run_id, progress, node_timings)}})

\* the snapshot a tracker call hands to _persist_run_telemetry: _mark_node_start for
\* kind "start", _mark_node_end for kind "end"
SnapshotToWrite(l) ==
    Only({IF l.kind = "start"
          THEN [progress |-> Marked(l.st, CopyProgress(l.st), node_name, "running", FALSE, 0),
                node_timings |-> CopyNodeTimings(l.st)]
          ELSE [progress |-> Completed(Marked(l.st, CopyProgress(l.st), node_name, "completed", FALSE, 0),
                                       node_name, EmptyDict),
                node_timings |-> Put(CopyNodeTimings(l.st), node_name, l.ms)] :
          node_name \in {Head(l.nodes)}})

\* an execution of run_id that has marked nothing yet
ExecutionOf(run_id, ms) ==
    [run_id |-> run_id, ms |-> ms, nodes |-> RaceNodes, kind |-> "start", at |-> "read",
     read |-> EmptyDict, snap |-> EmptyDict,
     st |-> [run_id |-> run_id,
             progress |-> [current_node |-> "", node_status |-> EmptyDict,
                           completed_nodes |-> <<>>, revision_count |-> 0],
             node_timings |-> EmptyDict]]

RaceInit ==
    /\ \E other \in {"R1", "R2"} :
         /\ state = [x \in Executions |-> IF x = "A" THEN ExecutionOf("R1", 1) ELSE ExecutionOf(other, 2)]
         /\ started = [x \in Executions |->
                          IF x = "A" \/ other = "R1"
                          THEN Merge(InitialRow, [id |-> "R1", mode |-> "chapter", input_payload |-> EmptyDict])
                          ELSE OtherRun]
    /\ pc = "race"
    /\ result = EmptyDict
    /\ env = "telemetry"
    /\ run_exists = TRUE
    /\ run = Merge(InitialRow, [id |-> "R1", mode |-> "chapter", input_payload |-> EmptyDict])
    /\ project = PlainProject
    /\ chapters = <<>>
    /\ cstate = EmptyDict
    /\ exc = NoError
    /\ calls = NoCalls
    /\ reported = <<>>
    /\ last_node = ""
    /\ attempt = 1
    /\ draft_call = NoDraftCall
    /\ handed = NothingHanded
    /\ other_run = OtherRun
    /\ writes = NoWrites

\* line 633: run = AgentRun.objects.filter(id=run_id).first(), with the snapshot of the call
TelemetryRead(x) ==
    /\ state[x].at = "read"
    /\ \E table \in {Rows(run, other_run)} :
       \E found \in FilterById(table, state[x].run_id) :
         state' = [state EXCEPT ![x].read = table[found],
                                ![x].snap = SnapshotToWrite(state[x]),
                                ![x].at = "write"]
    /\ last_node' = x
    /\ UNCHANGED <<writes, other_run, handed, draft_call, attempt, env, run, run_exists, project,
                   chapters, cstate, started, exc, result, calls, reported, pc>>

\* lines 636-647, and the tracker's return to the node handler
TelemetrySave(x) ==
    /\ state[x].at = "write"
    /\ \E l \in {state[x]} :
       \E table \in {SaveTelemetry(Rows(run, other_run), l.read, l.run_id,
                                   l.snap.progress, l.snap.node_timings)} :
         /\ run' = table["R1"]
         /\ other_run' = table["R2"]
         /\ started' = [started EXCEPT ![x] = PersistRunTelemetry(@, TRUE, l.run_id,
                                                                 l.snap.progress, l.snap.node_timings)]
         /\ state' = [state EXCEPT
                        ![x].st = Merge(l.st, l.snap),
                        ![x].kind = IF l.kind = "start" THEN "end" ELSE "start",
                        ![x].nodes = IF l.kind = "start" THEN l.nodes ELSE Tail(l.nodes),
                        ![x].at = IF l.kind = "end" /\ Len(l.nodes) = 1 THEN "done" ELSE "read"]
    /\ last_node' = x
    /\ UNCHANGED <<writes, handed, draft_call, attempt, env, run_exists, project,
                   chapters, cstate, exc, result, calls, reported, pc>>

RaceNext == \E x \in Executions : TelemetryRead(x) \/ TelemetrySave(x)

RaceSpec == RaceInit /\ [][RaceNext]_vars

\* the two executions drive different runs
DifferentRuns == state["A"].run_id # state["B"].run_id

\* the row of the run an execution drives
RowOf(x) == Rows(run, other_run)[state[x].run_id]

\* C36: two executions that drive different run ids, interleaved in any order, do not
\* affect each other: the persisted progress and timings of each run are those the
\* execution would have written alone, and the progress it returns is its own.
C36_RunsIndependent ==
    (pc = "race" /\ DifferentRuns) =>
        \A x \in Executions :
            /\ RowOf(x) = started[x]
            /\ state[x].at = "done" =>
                  /\ Get(RowOf(x).output_payload, "progress", EmptyDict) = state[x].st.progress
                  /\ \A n \in DOMAIN state[x].st.node_timings :
                        Get(RowOf(x).timings_json, "nodes", EmptyDict)[n] = state[x].st.node_timings[n]

\* both executions are through, each with its own durations in its own run's record
C36_Witness ==
    /\ pc = "race" /\ DifferentRuns
    /\ state["A"].at = "done" /\ state["B"].at = "done"
    /\ run.timings_json.nodes = [n \in {"chapter_retrieve_context", "chapter_plan"} |-> 1]
    /\ other_run.timings_json.nodes["chapter_plan"] = 2
    /\ other_run.timings_json.nodes["run_toc"] = 1
    /\ other_run.status = "completed"

\* the entries of timings.nodes of a row
NodesOf(row) == Get(row.timings_json, "nodes", EmptyDict)

\* execution x saves the copy it read
SaveStep(x) == state[x].at = "write" /\ state'[x].at # "write"

\* C37: when two executions write telemetry for the same run id and their read-modify-write
\* steps interleave, the last writer wins: after a save the record's output.progress is
\* entirely the saving writer's snapshot, and an entry that another writer added to
\* timings.nodes between this writer's read and its save is lost.
C37_LastWriterWins ==
    [][\A x \in Executions :
          (pc = "race" /\ ~DifferentRuns /\ SaveStep(x)) =>
              /\ run'.output_payload.progress = state[x].snap.progress
              /\ \A n \in DOMAIN NodesOf(run) :
                    (n \notin DOMAIN NodesOf(state[x].read) /\ n \notin DOMAIN state[x].snap.node_timings)
                        => n \notin DOMAIN NodesOf(run')]_vars

\* B read the row before A saved the end of chapter_retrieve_context and saved after it:
\* A holds the node's duration, the record has no entry for it and shows B's snapshot
C37_Witness ==
    /\ pc = "race" /\ ~DifferentRuns
    /\ last_node = "B"
    /\ state["B"].at = "read" /\ state["B"].kind = "end"
    /\ "chapter_retrieve_context" \in DOMAIN state["A"].st.node_timings
    /\ "chapter_retrieve_context" \notin DOMAIN NodesOf(run)
    /\ run.output_payload.progress = state["B"].st.progress

----------------------------------------------------------------------------
(* The snapshots of the telemetry writes *)

\* every node the snapshot lists in completed_nodes has a status that is allowed for it
ListedNodesHave(snapshot, allowed(_, _)) ==
    \A i \in 1..Len(snapshot.completed_nodes) :
        allowed(snapshot.completed_nodes[i], Get(snapshot.node_status, snapshot.completed_nodes[i], ""))

IsCompleted(n, status) == status = "completed"

\* C38 as stated: in every progress snapshot written during a run each node listed in
\* completed_nodes has node_status "completed", never "running" or "failed", also while
\* the revision loop executes chapter_draft and chapter_review again.
C38_AsStated ==
    \A i \in DOMAIN writes.log : ListedNodesHave(writes.log[i].snapshot, IsCompleted)

\* the node the latest handler marks
MarkedNode == IF writes.log = <<>> THEN "" ELSE writes.log[1].node

\* completed, or the node of the revision loop that is being executed again
IsCompletedOrRepeated(n, status) ==
    \/ status = "completed"
    \/ n = MarkedNode /\ n \in LoopNodes /\ status \in {"running", "failed"}

\* C38 (amended): in every progress snapshot written during a run each node listed in
\* completed_nodes has node_status "completed", except chapter_draft and chapter_review while
\* the revision loop executes them again: the node stays listed from its first execution
\* and its status is "running", or "failed" when it raises.
C38_ListedNodesCompleted ==
    \A i \in DOMAIN writes.log : ListedNodesHave(writes.log[i].snapshot, IsCompletedOrRepeated)

\* the start write of the revision draft lists chapter_draft as completed and running
C38_Witness ==
    /\ Len(writes.log) = 2
    /\ writes.log[1].node = "chapter_draft" /\ writes.log[1].status = "running"
    /\ Contains(writes.log[1].snapshot.completed_nodes, "chapter_draft")
    /\ Contains(writes.log[1].snapshot.completed_nodes, "chapter_review")
    /\ writes.log[1].snapshot.node_status["chapter_draft"] = "running"
    /\ writes.log[1].snapshot.node_status["chapter_review"] = "completed"
    /\ writes.log[2].status = "failed"
    /\ writes.log[2].snapshot.node_status["chapter_draft"] = "failed"

\* the revision_count of the progress stored in the run record
PersistedRevisionCount == Get(PersistedProgress, "revision_count", 0)

\* the revision counts of the snapshots a handler writes, in the order of its writes
RECURSIVE NonDecreasing(_, _)
NonDecreasing(from, ws) ==
    IF ws = <<>> THEN TRUE
    ELSE /\ Get(Head(ws).snapshot, "revision_count", 0) >= from
         /\ NonDecreasing(Get(Head(ws).snapshot, "revision_count", 0), Tail(ws))

\* C39: across the successive telemetry writes of one chapter run the revision_count of the
\* persisted progress never decreases, the snapshots written when a node fails after one or
\* more revisions included.
C39_RevisionCountNeverDecreases ==
    [][/\ PersistedRevisionCount' >= PersistedRevisionCount
       /\ writes' # writes => NonDecreasing(PersistedRevisionCount, writes'.log)]_vars

\* the revision_count a successful chapter run returns in its progress
FinalRevisionCount == Get(Get(result, "progress", EmptyDict), "revision_count", -1)

\* C40: in every successful chapter run RETRIEVE_CONTEXT, PLAN and PERSIST are executed
\* exactly once, DRAFT as often as REVIEW, and both as often as the final revision_count + 1,
\* a number in 1..max_revisions + 1; a run whose first review asks for no revision goes on
\* to PERSIST after one draft with revision_count 0.
C40_NodeExecutionCounts ==
    /\ SuccessfulChapterRun =>
          /\ calls.context = 1 /\ calls.plan = 1 /\ calls.persist = 1
          /\ calls.draft = calls.review
          /\ calls.draft = FinalRevisionCount + 1
          /\ calls.draft \in 1..(max_revisions + 1)
    /\ (ChapterRun /\ calls.review = 1 /\ calls.persist = 0
          /\ pc \in ChapterNodes
          /\ ~Get(Get(cstate, "review_result", EmptyDict), "effective_should_revise", TRUE))
          => /\ pc = "chapter_persist"
             /\ calls.draft = 1
             /\ Get(cstate, "revision_count", -1) = 0

\* a run that used its whole revision budget: three drafts, three reviews, revision_count 2
C40_Witness ==
    /\ SuccessfulChapterRun
    /\ calls.draft = 3 /\ calls.review = 3
    /\ calls.context = 1 /\ calls.plan = 1 /\ calls.persist = 1
    /\ FinalRevisionCount = 2

====
